---- MODULE Spec2Model ----
(***************************************************************************)
(* Model of the planning data analyzer's evaluation engine                 *)
(* (planning/autoware_planning_data_analyzer/src/node.hpp): the time       *)
(* window buffers, the synchronized snapshot (TrimmedData), the metric     *)
(* series and scores of CommonData and the ranking of                      *)
(* SamplingTrajectoryData.                                                 *)
(*                                                                         *)
(* Time: rclcpp::Time::nanoseconds() is a 64 bit count of nanoseconds.     *)
(* The model counts time in units of 1e8 ns (a tenth of a second), so that *)
(* 20.0 * 1e9 ns is 200 units; stamps lie on a grid of half a window.      *)
(***************************************************************************)
EXTENDS Integers, Sequences, FiniteSets, TLC

VARIABLES
  kind,          \* which instantiation the stand-alone Buffer<T> is
  msgs,          \* Buffer<T>::msgs of the stand-alone buffer
  trimmed_data,  \* the TrimmedData object: timestamp and its six buffers
  ret,           \* the last call: its name, arguments, the object before it, its result
  ub,            \* the process ran into undefined behaviour and was terminated
  build,         \* how the build resolves what the language leaves open
  common_data,   \* the ManualDrivingData or TrajectoryData constructed last
  sampling,      \* the SamplingTrajectoryData constructed last
  time_keeper,   \* the TimeKeeper object, its tracking tree and what it reported
  selector       \* the RawVehicleCmdSelector node, its static gear and its output topic

vars ==
  <<kind, msgs, trimmed_data, ret, ub, build, common_data, sampling, time_keeper, selector>>

----------------------------------------------------------------------------
\* Bounds of the model.

\* stamps are 0, Tick, ..., MaxTick * Tick
MaxTick == 3
\* a stand-alone buffer holds at most MaxLen records
MaxLen == 3
\* resample_num, the number of horizon steps, is at most MaxN
MaxN == 3
\* the sampler returns at most MaxSamples trajectories
MaxSamples == 2
\* a buffer of the snapshot holds at most MaxSnapLen records
MaxSnapLen == 2

----------------------------------------------------------------------------
\* Program constants and the values of the model.

\* Buffer::BUFFER_TIME = 20.0 * 1e9 ns, in units of 1e8 ns
BUFFER_TIME == 200

Tick == BUFFER_TIME \div 2

Stamps == {k * Tick : k \in 0..MaxTick}

\* std_msgs Header carrying a stamp
Header(s) == [header |-> [stamp |-> s]]

\* messages with msg.header.stamp: Odometry, PredictedObjects,
\* AccelWithCovarianceStamped, Trajectory
HeaderMsgs == {Header(s) : s \in Stamps}

\* SteeringReport carries msg.stamp, no header
SteeringReports == {[stamp |-> s] : s \in Stamps}

\* TFMessage: a batch of stamped transforms, possibly none
TFMessages ==
  {[transforms |-> <<>>]}
    \cup {[transforms |-> <<Header(s)>>] : s \in Stamps}
    \cup {[transforms |-> <<Header(s), Header(s + Tick)>>] : s \in Stamps}

Kinds == {"header", "steer", "tf"}

MsgsOf(k) ==
  CASE k = "header" -> HeaderMsgs
    [] k = "steer" -> SteeringReports
    [] k = "tf" -> TFMessages

\* std::optional<T>
nullopt == [has_value |-> FALSE]

Some(v) == [has_value |-> TRUE, value |-> v]

\* the elements of m at the indices in K, in their order in m
\* (what std::remove_if followed by erase leaves)
KeepAt(m, K) ==
  LET idx == SelectSeq([i \in 1..Len(m) |-> i], LAMBDA i : i \in K)
  IN  [j \in 1..Len(idx) |-> m[idx[j]]]

----------------------------------------------------------------------------
\* Buffer<T>, the generic template (msg.header.stamp).

\* is_ready with >= in place of >
Buffer_is_ready_ge(m) ==
  IF m = <<>>
    THEN FALSE
    ELSE m[Len(m)].header.stamp - m[1].header.stamp >= BUFFER_TIME

Buffer_is_ready(m) ==
  IF m = <<>>
    THEN FALSE
    ELSE m[Len(m)].header.stamp - m[1].header.stamp > BUFFER_TIME

\* remove_old_data with <= in place of <
Buffer_remove_old_data_le(m, now) ==
  KeepAt(m, {i \in 1..Len(m) : ~(m[i].header.stamp <= now)})

Buffer_remove_old_data(m, now) ==
  KeepAt(m, {i \in 1..Len(m) : ~(m[i].header.stamp < now)})

\* find_if with >= in place of >
RECURSIVE Buffer_find_if_ge(_, _, _)
Buffer_find_if_ge(m, now, i) ==
  IF i > Len(m) THEN Len(m) + 1
  ELSE IF m[i].header.stamp >= now THEN i
  ELSE Buffer_find_if_ge(m, now, i + 1)

\* std::find_if from position i: the position of the first match, Len(m) + 1 for end()
RECURSIVE Buffer_find_if(_, _, _)
Buffer_find_if(m, now, i) ==
  IF i > Len(m) THEN Len(m) + 1
  ELSE IF m[i].header.stamp > now THEN i
  ELSE Buffer_find_if(m, now, i + 1)

Buffer_get(m, now) ==
  LET itr == Buffer_find_if(m, now, 1)
  IN  IF itr = Len(m) + 1 THEN nullopt ELSE Some(m[itr])

\* Buffer::get(), msgs.front(), of a buffer that holds a record; the template
\* has no specialization of it
Buffer_get_front(m) == m[1]

\* msgs.front() of an empty vector is undefined behaviour
Buffer_get_front_ub(m) == m = <<>>

----------------------------------------------------------------------------
\* Buffer<SteeringReport> (msg.stamp).

\* is_ready of the steering buffer with >= in place of >
Steer_is_ready_ge(m) ==
  IF m = <<>>
    THEN FALSE
    ELSE m[Len(m)].stamp - m[1].stamp >= BUFFER_TIME

Steer_is_ready(m) ==
  IF m = <<>>
    THEN FALSE
    ELSE m[Len(m)].stamp - m[1].stamp > BUFFER_TIME

Steer_remove_old_data(m, now) ==
  IF m = <<>>
    THEN m
    ELSE KeepAt(m, {i \in 1..Len(m) : ~(m[i].stamp < now)})

RECURSIVE Steer_find_if(_, _, _)
Steer_find_if(m, now, i) ==
  IF i > Len(m) THEN Len(m) + 1
  ELSE IF m[i].stamp > now THEN i
  ELSE Steer_find_if(m, now, i + 1)

Steer_get(m, now) ==
  LET itr == Steer_find_if(m, now, 1)
  IN  IF itr = Len(m) + 1 THEN nullopt ELSE Some(m[itr])

----------------------------------------------------------------------------
\* Buffer<TFMessage> (msg.transforms.front().header.stamp).
\* transforms.front() of a batch without transforms is undefined behaviour:
\* the read ends the process, or yields an arbitrary stamp so that the
\* comparison made with it comes out either way.

TF_is_ready(m) ==
  IF m = <<>> THEN FALSE
  ELSE IF m[1].transforms = <<>> THEN FALSE
  ELSE IF m[Len(m)].transforms = <<>> THEN FALSE
  ELSE m[Len(m)].transforms[1].header.stamp - m[1].transforms[1].header.stamp
         > BUFFER_TIME

\* the positions whose batch has no transforms
TF_unstamped(m) == {i \in 1..Len(m) : m[i].transforms = <<>>}

\* remove_if visits every element: undefined as soon as one batch is empty
TF_remove_old_data_ub(m, now) == m # <<>> /\ TF_unstamped(m) # {}

\* the buffers remove_old_data can leave when the process survives
TF_remove_old_data(m, now) ==
  IF m = <<>>
    THEN {m}
    ELSE {KeepAt(m, {i \in 1..Len(m) :
                       IF i \in TF_unstamped(m)
                         THEN i \notin R
                         ELSE ~(m[i].transforms[1].header.stamp < now)})
            : R \in SUBSET TF_unstamped(m)}

\* find_if stops at the first match: the positions it can stop at
RECURSIVE TF_find_if(_, _, _)
TF_find_if(m, now, i) ==
  IF i > Len(m) THEN {Len(m) + 1}
  ELSE IF m[i].transforms = <<>> THEN {i} \cup TF_find_if(m, now, i + 1)
  ELSE IF m[i].transforms[1].header.stamp > now THEN {i}
  ELSE TF_find_if(m, now, i + 1)

\* find_if reads an empty batch iff some position it can stop at is one
TF_get_ub(m, now) == TF_find_if(m, now, 1) \cap TF_unstamped(m) # {}

\* the values get(now) can return when the process survives
TF_get(m, now) ==
  {IF itr = Len(m) + 1 THEN nullopt ELSE Some(m[itr]) : itr \in TF_find_if(m, now, 1)}

----------------------------------------------------------------------------
\* One interface over the three instantiations: the results a call can have
\* and whether the call runs into undefined behaviour.

is_ready(k, m) ==
  CASE k = "header" -> Buffer_is_ready(m)
    [] k = "steer" -> Steer_is_ready(m)
    [] k = "tf" -> TF_is_ready(m)

remove_old_data(k, m, now) ==
  CASE k = "header" -> {Buffer_remove_old_data(m, now)}
    [] k = "steer" -> {Steer_remove_old_data(m, now)}
    [] k = "tf" -> TF_remove_old_data(m, now)

remove_old_data_ub(k, m, now) == k = "tf" /\ TF_remove_old_data_ub(m, now)

get(k, m, now) ==
  CASE k = "header" -> {Buffer_get(m, now)}
    [] k = "steer" -> {Steer_get(m, now)}
    [] k = "tf" -> TF_get(m, now)

get_ub(k, m, now) == k = "tf" /\ TF_get_ub(m, now)

\* append that inserts at the front
append_front(m, msg) == <<msg>> \o m

\* Buffer::append
append(m, msg) == Append(m, msg)

----------------------------------------------------------------------------
\* double: an exact fraction n/d in lowest terms with d > 0, or with d = 0
\* +infinity (n = 1), -infinity (n = -1) and NaN (n = 0). Rounding is not
\* modelled; the sign of zero is not kept.

Abs(a) == IF a < 0 THEN -a ELSE a

RECURSIVE GCD(_, _)
GCD(a, b) == IF b = 0 THEN a ELSE GCD(b, a % b)

\* the double n/d, d # 0
Frac(n, d) ==
  LET g == GCD(Abs(n), Abs(d))
      sg == IF d < 0 THEN -1 ELSE 1
  IN  [n |-> (sg * n) \div g, d |-> (sg * d) \div g]

Num(k) == [n |-> k, d |-> 1]

Inf == [n |-> 1, d |-> 0]

NegInf == [n |-> -1, d |-> 0]

NaN == [n |-> 0, d |-> 0]

IsNaN(x) == x.d = 0 /\ x.n = 0

IsFinite(x) == x.d # 0

Sgn(x) == IF x.n > 0 THEN 1 ELSE IF x.n < 0 THEN -1 ELSE 0

\* x < y; false when either is NaN
DLt(x, y) ==
  IF IsNaN(x) \/ IsNaN(y) THEN FALSE
  ELSE IF x.d = 0 \/ y.d = 0
    THEN (IF x.d = 0 THEN 2 * x.n ELSE Sgn(x)) < (IF y.d = 0 THEN 2 * y.n ELSE Sgn(y))
  ELSE x.n * y.d < y.n * x.d

DNeg(x) == [n |-> -x.n, d |-> x.d]

\* std::abs
DAbs(x) == [n |-> Abs(x.n), d |-> x.d]

DAdd(x, y) ==
  IF IsNaN(x) \/ IsNaN(y) THEN NaN
  ELSE IF x.d = 0 /\ y.d = 0 THEN (IF x.n = y.n THEN x ELSE NaN)
  ELSE IF x.d = 0 THEN x
  ELSE IF y.d = 0 THEN y
  ELSE Frac(x.n * y.d + y.n * x.d, x.d * y.d)

DSub(x, y) == DAdd(x, DNeg(y))

DMul(x, y) ==
  IF IsNaN(x) \/ IsNaN(y) THEN NaN
  ELSE IF x.d = 0 \/ y.d = 0
    THEN (IF Sgn(x) * Sgn(y) = 0 THEN NaN ELSE [n |-> Sgn(x) * Sgn(y), d |-> 0])
  ELSE Frac(x.n * y.n, x.d * y.d)

DDiv(x, y) ==
  IF IsNaN(x) \/ IsNaN(y) THEN NaN
  ELSE IF y.d = 0 THEN (IF x.d = 0 THEN NaN ELSE Num(0))
  ELSE IF y.n = 0 THEN (IF x.n = 0 THEN NaN ELSE [n |-> Sgn(x), d |-> 0])
  ELSE IF x.d = 0 THEN [n |-> Sgn(x) * Sgn(y), d |-> 0]
  ELSE Frac(x.n * y.d, x.d * y.n)

\* std::clamp(v, lo, hi): (v < lo) ? lo : (hi < v) ? hi : v
clamp(v, lo, hi) == IF DLt(v, lo) THEN lo ELSE IF DLt(hi, v) THEN hi ELSE v

RECURSIVE IntPow(_, _)
IntPow(a, i) == IF i = 0 THEN 1 ELSE a * IntPow(a, i - 1)

\* std::pow(x, i) for a finite x and a step index i
pow(x, i) == Frac(IntPow(x.n, i), IntPow(x.d, i))

----------------------------------------------------------------------------
\* TrimmedData: one logical timestamp and six buffers.

BufferNames ==
  {"buf_tf", "buf_odometry", "buf_objects", "buf_accel", "buf_steer", "buf_trajectory"}

\* the instantiation of each member: Buffer<TFMessage>, Buffer<SteeringReport>,
\* and the generic template for the four header-stamped messages
KindOf(b) ==
  CASE b = "buf_tf" -> "tf"
    [] b = "buf_steer" -> "steer"
    [] OTHER -> "header"

\* TrimmedData(timestamp): every buffer empty
TrimmedData(timestamp) ==
  [timestamp |-> timestamp,
   buf_tf |-> <<>>, buf_odometry |-> <<>>, buf_objects |-> <<>>,
   buf_accel |-> <<>>, buf_steer |-> <<>>, buf_trajectory |-> <<>>]

\* remove_old_data that leaves buf_trajectory alone
TrimmedData_remove_old_data_five(td) ==
  {[timestamp |-> td.timestamp,
    buf_tf |-> tf,
    buf_odometry |-> Buffer_remove_old_data(td.buf_odometry, td.timestamp),
    buf_objects |-> Buffer_remove_old_data(td.buf_objects, td.timestamp),
    buf_accel |-> Buffer_remove_old_data(td.buf_accel, td.timestamp),
    buf_steer |-> Steer_remove_old_data(td.buf_steer, td.timestamp),
    buf_trajectory |-> td.buf_trajectory]
     : tf \in TF_remove_old_data(td.buf_tf, td.timestamp)}

\* TrimmedData::remove_old_data: the six buffers in turn, each at td.timestamp
TrimmedData_remove_old_data(td) ==
  {[timestamp |-> td.timestamp,
    buf_tf |-> tf,
    buf_odometry |-> Buffer_remove_old_data(td.buf_odometry, td.timestamp),
    buf_objects |-> Buffer_remove_old_data(td.buf_objects, td.timestamp),
    buf_accel |-> Buffer_remove_old_data(td.buf_accel, td.timestamp),
    buf_steer |-> Steer_remove_old_data(td.buf_steer, td.timestamp),
    buf_trajectory |-> Buffer_remove_old_data(td.buf_trajectory, td.timestamp)]
     : tf \in TF_remove_old_data(td.buf_tf, td.timestamp)}

TrimmedData_remove_old_data_ub(td) == TF_remove_old_data_ub(td.buf_tf, td.timestamp)

\* TrimmedData::update: timestamp += dt, then remove_old_data()
TrimmedData_update(td, dt) ==
  TrimmedData_remove_old_data([td EXCEPT !.timestamp = td.timestamp + dt])

TrimmedData_update_ub(td, dt) ==
  TrimmedData_remove_old_data_ub([td EXCEPT !.timestamp = td.timestamp + dt])

\* is_ready that forgets buf_steer
TrimmedData_is_ready_five(td) ==
  /\ TF_is_ready(td.buf_tf)
  /\ Buffer_is_ready(td.buf_objects)
  /\ Buffer_is_ready(td.buf_odometry)
  /\ Buffer_is_ready(td.buf_accel)
  /\ Buffer_is_ready(td.buf_trajectory)

\* TrimmedData::is_ready
TrimmedData_is_ready(td) ==
  /\ TF_is_ready(td.buf_tf)
  /\ Buffer_is_ready(td.buf_objects)
  /\ Buffer_is_ready(td.buf_odometry)
  /\ Buffer_is_ready(td.buf_accel)
  /\ Steer_is_ready(td.buf_steer)
  /\ Buffer_is_ready(td.buf_trajectory)

----------------------------------------------------------------------------
\* The messages the metrics read. Positions and velocities lie on the x axis:
\* a pose is its position x and its heading, 1 for yaw 0 and -1 for yaw pi.
\* An angle is kept as its tangent.

Pose(x, heading) == [position |-> [x |-> x], heading |-> heading]

Odometry(s, x, vx) ==
  [header |-> [stamp |-> s],
   pose |-> [pose |-> Pose(x, 1)],
   twist |-> [twist |-> [linear |-> [x |-> vx]]]]

AccelWithCovarianceStamped(s, ax) ==
  [header |-> [stamp |-> s], accel |-> [accel |-> [linear |-> [x |-> ax]]]]

SteeringReport(s, tangent) ==
  [stamp |-> s, steering_tire_angle |-> [tangent |-> tangent]]

\* one predicted object: its initial pose and twist
PredictedObject(x, heading, vx) ==
  [kinematics |->
     [initial_pose_with_covariance |-> [pose |-> Pose(x, heading)],
      initial_twist_with_covariance |-> [twist |-> [linear |-> [x |-> vx]]]]]

PredictedObjects(s, objects) == [header |-> [stamp |-> s], objects |-> objects]

TrajectoryPoint(x, v, a, tangent) ==
  [pose |-> Pose(x, 1),
   longitudinal_velocity_mps |-> v,
   acceleration_mps2 |-> a,
   front_wheel_angle_rad |-> [tangent |-> tangent]]

\* std::tan
tan(angle) == angle.tangent

\* F(v), with v evaluated once
Once(F(_), v) == CHOOSE r \in {F(x) : x \in {v}} : TRUE

\* std::numeric_limits<double>::max(), a stand-in far above every clamp range
DBL_MAX == 1000000

\* 1e9 ns, in units of 1e8 ns
NS_1E9 == 10

\* the result of a call that can throw or run into undefined behaviour
Ok(v) == [st |-> "ok", v |-> v]

\* std::out_of_range out of std::vector::at
Thrown == [st |-> "throw", v |-> NaN]

\* a read of an element a vector does not hold, yielding the value stale
Undefined(stale) == [st |-> "ub", v |-> stale]

\* the worst of the outcomes of the calls in rs, made in this order:
\* the first throw ends them; an undefined read before it stays one
RECURSIVE Outcome(_)
Outcome(rs) ==
  IF rs = <<>> THEN "ok"
  ELSE IF rs[1].st = "throw" THEN "throw"
  ELSE IF rs[1].st = "ub" THEN (IF Outcome(Tail(rs)) = "throw" THEN "ub_throw" ELSE "ub")
  ELSE Outcome(Tail(rs))

\* tf2::Vector3 of a velocity given in the frame of pose, in world coordinates:
\* transformPoint(v_local, pose) - pose.position
get_velocity_in_world_coordinate(pose, v_local) ==
  LET p_world == DAdd(pose.position.x, DMul(Num(pose.heading), v_local))
  IN  DSub(p_world, pose.position.x)

\* the smallest element of a non-empty sequence without NaN: std::sort, front()
RECURSIVE DMin(_)
DMin(vs) ==
  IF Len(vs) = 1 THEN vs[1]
  ELSE LET m == DMin(Tail(vs)) IN IF DLt(vs[1], m) THEN vs[1] ELSE m

\* time_to_collision; stale is what front() of the emptied vector reads
time_to_collision(objects, p_ego, v_ego, stale) ==
  IF objects.objects = <<>>
    THEN Ok(Num(DBL_MAX))
    ELSE
      LET n == Len(objects.objects)
          ttc(k) ==
            LET object == objects.objects[k]
                p_object == object.kinematics.initial_pose_with_covariance.pose
                v_ego2object == DSub(p_object.position.x, p_ego.position.x)
                length == DAbs(v_ego2object)
                normalized == DDiv(v_ego2object, length)
                v_object ==
                  get_velocity_in_world_coordinate(
                    p_object, object.kinematics.initial_twist_with_covariance.twist.linear.x)
                v_relative == DSub(DMul(normalized, v_ego), DMul(normalized, v_object))
            IN  DDiv(length, v_relative)
          \* std::vector<double>(size) holds size zeros; push_back adds behind them
          time_to_collisions == [k \in 1..(2 * n) |-> IF k <= n THEN Num(0) ELSE ttc(k - n)]
          kept == SelectSeq(time_to_collisions, LAMBDA value : ~DLt(value, Frac(1, 1000)))
      IN  IF kept = <<>> \/ \E k \in 1..Len(kept) : IsNaN(kept[k])
            THEN Undefined(stale)
            ELSE Ok(DMin(kept))

----------------------------------------------------------------------------
\* CommonData and its two subclasses, ManualDrivingData and TrajectoryData.

\* trimmed_data->timestamp + 1e9 * time_resolution * i, converted to an integer
\* count by the parameter of Buffer::get
StepTime(td, time_resolution, i) ==
  LET t == DAdd(Num(td.timestamp), DMul(DMul(Num(NS_1E9), time_resolution), Num(i)))
  IN  t.n \div t.d

\* CommonData::CommonData: the objects at the steps i, ..., up to the first miss
RECURSIVE CommonData_objects_history(_, _, _, _)
CommonData_objects_history(td, resample_num, time_resolution, i) ==
  IF i >= resample_num THEN <<>>
  ELSE LET opt_objects == Buffer_get(td.buf_objects, StepTime(td, time_resolution, i))
       IN  IF ~opt_objects.has_value
             THEN <<>>
             ELSE <<opt_objects.value>>
                    \o CommonData_objects_history(td, resample_num, time_resolution, i + 1)

\* a loop that fills a step without a record with the buffer's last record
ManualDrivingData_histories_padded(td, resample_num, time_resolution, i) ==
  LET held(opt, buf) == IF opt.has_value THEN opt.value ELSE buf[Len(buf)]
      now(k) == StepTime(td, time_resolution, k - 1)
  IN  [odometry_history |->
         [k \in 1..resample_num |-> held(Buffer_get(td.buf_odometry, now(k)), td.buf_odometry)],
       accel_history |->
         [k \in 1..resample_num |-> held(Buffer_get(td.buf_accel, now(k)), td.buf_accel)],
       steer_history |->
         [k \in 1..resample_num |-> held(Steer_get(td.buf_steer, now(k)), td.buf_steer)]]

\* the loop of ManualDrivingData::ManualDrivingData from step i on
RECURSIVE ManualDrivingData_histories(_, _, _, _)
ManualDrivingData_histories(td, resample_num, time_resolution, i) ==
  LET none == [odometry_history |-> <<>>, accel_history |-> <<>>, steer_history |-> <<>>]
      now == StepTime(td, time_resolution, i)
      opt_odometry == Buffer_get(td.buf_odometry, now)
      opt_accel == Buffer_get(td.buf_accel, now)
      opt_steer == Steer_get(td.buf_steer, now)
      rest == ManualDrivingData_histories(td, resample_num, time_resolution, i + 1)
  IN  IF i >= resample_num THEN none
      ELSE IF ~opt_odometry.has_value THEN none
      ELSE IF ~opt_accel.has_value
        THEN [none EXCEPT !.odometry_history = <<opt_odometry.value>>]
      ELSE IF ~opt_steer.has_value
        THEN [none EXCEPT !.odometry_history = <<opt_odometry.value>>,
                          !.accel_history = <<opt_accel.value>>]
      ELSE [odometry_history |-> <<opt_odometry.value>> \o rest.odometry_history,
            accel_history |-> <<opt_accel.value>> \o rest.accel_history,
            steer_history |-> <<opt_steer.value>> \o rest.steer_history]

\* the members of a ManualDrivingData before calculate()
ManualDrivingData(td, vehicle_info, resample_num, time_resolution) ==
  LET h == ManualDrivingData_histories(td, resample_num, time_resolution, 0)
  IN  [variant |-> "manual", tag |-> "manual",
       vehicle_info |-> vehicle_info, resample_num |-> resample_num,
       objects_history |-> CommonData_objects_history(td, resample_num, time_resolution, 0),
       odometry_history |-> h.odometry_history,
       accel_history |-> h.accel_history,
       steer_history |-> h.steer_history,
       points |-> <<>>]

\* the members of a TrajectoryData before calculate()
TrajectoryData(td, vehicle_info, resample_num, time_resolution, tag, points) ==
  [variant |-> "trajectory", tag |-> tag,
   vehicle_info |-> vehicle_info, resample_num |-> resample_num,
   objects_history |-> CommonData_objects_history(td, resample_num, time_resolution, 0),
   odometry_history |-> <<>>, accel_history |-> <<>>, steer_history |-> <<>>,
   points |-> points]

\* std::vector::at(idx) is in range
InRange(v, idx) == idx < Len(v)

\* v.at(idx)
At(v, idx) == v[idx + 1]

ManualDrivingData_lateral_accel(cd, idx) ==
  IF ~InRange(cd.steer_history, idx) \/ ~InRange(cd.odometry_history, idx)
    THEN Thrown
    ELSE LET radius == DDiv(cd.vehicle_info.wheel_base_m,
                            tan(At(cd.steer_history, idx).steering_tire_angle))
             speed == At(cd.odometry_history, idx).twist.twist.linear.x
         IN  Ok(DDiv(DMul(speed, speed), radius))

ManualDrivingData_longitudinal_jerk(cd, idx) ==
  IF ~InRange(cd.accel_history, idx + 1)
    THEN Thrown
    ELSE LET dt == Num(At(cd.accel_history, idx + 1).header.stamp
                         - At(cd.accel_history, idx).header.stamp)
         IN  Ok(DDiv(DMul(Num(NS_1E9),
                          DSub(At(cd.accel_history, idx + 1).accel.accel.linear.x,
                               At(cd.accel_history, idx).accel.accel.linear.x)),
                     dt))

ManualDrivingData_minimum_ttc(cd, idx, stale) ==
  IF ~InRange(cd.odometry_history, idx) \/ ~InRange(cd.objects_history, idx)
    THEN Thrown
    ELSE LET p_ego == At(cd.odometry_history, idx).pose.pose
             v_ego == get_velocity_in_world_coordinate(
                        p_ego, At(cd.odometry_history, idx).twist.twist.linear.x)
         IN  time_to_collision(At(cd.objects_history, idx), p_ego, v_ego, stale)

\* calcDistance3d of two poses
calcDistance3d(p1, p2) == DAbs(DSub(p1.position.x, p2.position.x))

RECURSIVE ManualDrivingData_travel_distance_from(_, _, _)
ManualDrivingData_travel_distance_from(cd, idx, i) ==
  IF i >= idx THEN Num(0)
  ELSE DAdd(calcDistance3d(At(cd.odometry_history, i + 1).pose.pose,
                           At(cd.odometry_history, i).pose.pose),
            ManualDrivingData_travel_distance_from(cd, idx, i + 1))

ManualDrivingData_travel_distance(cd, idx) ==
  IF idx > 0 /\ ~InRange(cd.odometry_history, idx)
    THEN Thrown
    ELSE Ok(ManualDrivingData_travel_distance_from(cd, idx, 0))

TrajectoryData_lateral_accel(cd, idx) ==
  IF ~InRange(cd.points, idx)
    THEN Thrown
    ELSE LET radius == DDiv(cd.vehicle_info.wheel_base_m,
                            tan(At(cd.points, idx).front_wheel_angle_rad))
             speed == At(cd.points, idx).longitudinal_velocity_mps
         IN  Ok(DDiv(DMul(speed, speed), radius))

TrajectoryData_longitudinal_jerk(cd, idx) ==
  IF ~InRange(cd.points, idx + 1)
    THEN Thrown
    ELSE Ok(DDiv(DSub(At(cd.points, idx + 1).acceleration_mps2,
                      At(cd.points, idx).acceleration_mps2),
                 Frac(1, 2)))

TrajectoryData_minimum_ttc(cd, idx, stale) ==
  IF ~InRange(cd.points, idx) \/ ~InRange(cd.objects_history, idx)
    THEN Thrown
    ELSE LET p_ego == At(cd.points, idx).pose
             v_ego == get_velocity_in_world_coordinate(
                        p_ego, At(cd.points, idx).longitudinal_velocity_mps)
         IN  time_to_collision(At(cd.objects_history, idx), p_ego, v_ego, stale)

\* motion_utils::calcSignedArcLength(points, 0, idx): the length of the path
\* from point 0 to point idx
RECURSIVE calcSignedArcLength(_, _, _)
calcSignedArcLength(points, src_idx, dst_idx) ==
  IF src_idx >= dst_idx THEN Num(0)
  ELSE DAdd(calcDistance3d(At(points, src_idx).pose, At(points, src_idx + 1).pose),
            calcSignedArcLength(points, src_idx + 1, dst_idx))

TrajectoryData_travel_distance(cd, idx) ==
  IF cd.points = <<>> THEN Ok(Num(0))
  ELSE IF ~InRange(cd.points, idx) THEN Thrown
  ELSE Ok(calcSignedArcLength(cd.points, 0, idx))

\* the virtual accessors
lateral_accel(cd, idx) ==
  IF cd.variant = "manual"
    THEN ManualDrivingData_lateral_accel(cd, idx)
    ELSE TrajectoryData_lateral_accel(cd, idx)

longitudinal_jerk(cd, idx) ==
  IF cd.variant = "manual"
    THEN ManualDrivingData_longitudinal_jerk(cd, idx)
    ELSE TrajectoryData_longitudinal_jerk(cd, idx)

minimum_ttc(cd, idx, stale) ==
  IF cd.variant = "manual"
    THEN ManualDrivingData_minimum_ttc(cd, idx, stale)
    ELSE TrajectoryData_minimum_ttc(cd, idx, stale)

travel_distance(cd, idx) ==
  IF cd.variant = "manual"
    THEN ManualDrivingData_travel_distance(cd, idx)
    ELSE TrajectoryData_travel_distance(cd, idx)

----------------------------------------------------------------------------
\* CommonData::calculate and the scores.

\* the outcome of calls with outcome a followed by calls with outcome b
Then(a, b) ==
  IF a \in {"throw", "ub_throw"} THEN a
  ELSE IF a = "ok" THEN b
  ELSE IF b \in {"throw", "ub_throw"} THEN "ub_throw" ELSE "ub"

\* the four push_backs of step i: in the loop, or in the block behind it where
\* the jerk is 0.0
calculate_step(cd, i, in_loop, stale) ==
  LET push_back(r) == [st |-> Outcome(r), row |-> [k \in 1..4 |-> r[k].v]]
  IN  Once(push_back,
           <<lateral_accel(cd, i),
             IF in_loop THEN longitudinal_jerk(cd, i) ELSE Ok(Num(0)),
             minimum_ttc(cd, i, stale),
             travel_distance(cd, i)>>)

\* the steps i, i + 1, ... of calculate. resample_num - 1 is a size_t: at
\* resample_num = 0 it is the largest value, above every i reached.
RECURSIVE calculate_values(_, _, _)
calculate_values(cd, i, stale) ==
  LET in_loop == cd.resample_num = 0 \/ i < cd.resample_num - 1
      behind(step) ==
        Once(LAMBDA rest :
               [st |-> Then(step.st, rest.st),
                rows |-> IF Then(step.st, rest.st) \in {"throw", "ub_throw"}
                           THEN <<>> ELSE <<step.row>> \o rest.rows],
             calculate_values(cd, i + 1, stale))
  IN  Once(LAMBDA step :
             IF step.st \in {"throw", "ub_throw"} THEN [st |-> step.st, rows |-> <<>>]
             ELSE IF ~in_loop THEN [st |-> step.st, rows |-> <<step.row>>]
             ELSE behind(step),
           calculate_step(cd, i, in_loop, stale))

\* score += terms[1], ..., score += terms[k], from score = 0.0
RECURSIVE DSumTo(_, _)
DSumTo(terms, k) == IF k = 0 THEN Num(0) ELSE DAdd(DSumTo(terms, k - 1), terms[k])

DSum(terms) == Once(LAMBDA ts : DSumTo(ts, Len(ts)), terms)

TIME_FACTOR == Frac(4, 5)

longitudinal_comfortability(values, resample_num) ==
  LET min == Num(0)
      max == Frac(1, 2)
      normalize(value) == DDiv(DSub(max, clamp(value, min, max)), DSub(max, min))
      score == DSum([k \in 1..resample_num |->
                 normalize(DMul(pow(TIME_FACTOR, k - 1), DAbs(values.LONGITUDINAL_JERK[k])))])
  IN  DDiv(score, Num(resample_num))

\* lateral_comfortability without the clamp
lateral_comfortability_unclamped(values, resample_num) ==
  LET min == Num(0)
      max == Frac(1, 2)
      normalize(value) == DDiv(DSub(max, value), DSub(max, min))
      score == DSum([k \in 1..resample_num |->
                 normalize(DMul(pow(TIME_FACTOR, k - 1), DAbs(values.LATERAL_ACCEL[k])))])
  IN  DDiv(score, Num(resample_num))

lateral_comfortability(values, resample_num) ==
  LET min == Num(0)
      max == Frac(1, 2)
      normalize(value) == DDiv(DSub(max, clamp(value, min, max)), DSub(max, min))
      score == DSum([k \in 1..resample_num |->
                 normalize(DMul(pow(TIME_FACTOR, k - 1), DAbs(values.LATERAL_ACCEL[k])))])
  IN  DDiv(score, Num(resample_num))

\* efficiency without the time factor
efficiency_undecayed(values, resample_num) ==
  LET min == Num(0)
      max == Num(20)
      normalize(value) == DDiv(clamp(value, min, max), DSub(max, min))
      score == DSum([k \in 1..resample_num |->
                 normalize(DDiv(values.TRAVEL_DISTANCE[k], Frac(1, 2)))])
  IN  DDiv(score, Num(resample_num))

efficiency(values, resample_num) ==
  LET min == Num(0)
      max == Num(20)
      normalize(value) == DDiv(clamp(value, min, max), DSub(max, min))
      score == DSum([k \in 1..resample_num |->
                 normalize(DDiv(DMul(pow(TIME_FACTOR, k - 1), values.TRAVEL_DISTANCE[k]),
                                Frac(1, 2)))])
  IN  DDiv(score, Num(resample_num))

\* safety without the clamp
safety_unclamped(values, resample_num) ==
  LET min == Num(0)
      max == Num(5)
      normalize(value) == DDiv(value, DSub(max, min))
      score == DSum([k \in 1..resample_num |->
                 normalize(DMul(pow(TIME_FACTOR, k - 1), values.MINIMUM_TTC[k]))])
  IN  DDiv(score, Num(resample_num))

safety(values, resample_num) ==
  LET min == Num(0)
      max == Num(5)
      normalize(value) == DDiv(clamp(value, min, max), DSub(max, min))
      score == DSum([k \in 1..resample_num |->
                 normalize(DMul(pow(TIME_FACTOR, k - 1), values.MINIMUM_TTC[k]))])
  IN  DDiv(score, Num(resample_num))

\* CommonData::total over the scores map
total(scores) ==
  LET w0 == Num(1)
      w1 == Num(1)
      w2 == Num(1)
      w3 == Num(1)
  IN  DAdd(DAdd(DAdd(DMul(w0, scores.LATERAL_COMFORTABILITY),
                     DMul(w1, scores.LONGITUDINAL_COMFORTABILITY)),
                DMul(w2, scores.EFFICIENCY)),
           DMul(w3, scores.SAFETY))

\* calculate that leaves the block behind the loop out
calculate_loop_only(cd, stale) ==
  LET stored(c) ==
        LET rows == IF c.rows = <<>> THEN <<>> ELSE SubSeq(c.rows, 1, Len(c.rows) - 1)
        IN  [st |-> c.st,
             values |-> [LATERAL_ACCEL |-> [k \in 1..Len(rows) |-> rows[k][1]],
                         LONGITUDINAL_JERK |-> [k \in 1..Len(rows) |-> rows[k][2]],
                         MINIMUM_TTC |-> [k \in 1..Len(rows) |-> rows[k][3]],
                         TRAVEL_DISTANCE |-> [k \in 1..Len(rows) |-> rows[k][4]]],
             scores |-> [LONGITUDINAL_COMFORTABILITY |-> NaN, LATERAL_COMFORTABILITY |-> NaN,
                         EFFICIENCY |-> NaN, SAFETY |-> NaN]]
  IN  Once(stored, calculate_values(cd, 0, stale))

\* CommonData::calculate: the outcome, the values map and the scores map
calculate(cd, stale) ==
  LET emplace(rows) ==
        [LATERAL_ACCEL |-> [k \in 1..Len(rows) |-> rows[k][1]],
         LONGITUDINAL_JERK |-> [k \in 1..Len(rows) |-> rows[k][2]],
         MINIMUM_TTC |-> [k \in 1..Len(rows) |-> rows[k][3]],
         TRAVEL_DISTANCE |-> [k \in 1..Len(rows) |-> rows[k][4]]]
      scored(st, values) ==
        [st |-> st, values |-> values,
         scores |->
           IF st \in {"throw", "ub_throw"}
             THEN [LONGITUDINAL_COMFORTABILITY |-> NaN, LATERAL_COMFORTABILITY |-> NaN,
                   EFFICIENCY |-> NaN, SAFETY |-> NaN]
             ELSE [LONGITUDINAL_COMFORTABILITY |->
                     longitudinal_comfortability(values, cd.resample_num),
                   LATERAL_COMFORTABILITY |-> lateral_comfortability(values, cd.resample_num),
                   EFFICIENCY |-> efficiency(values, cd.resample_num),
                   SAFETY |-> safety(values, cd.resample_num)]]
  IN  Once(LAMBDA c : Once(LAMBDA values : scored(c.st, values), emplace(c.rows)),
           calculate_values(cd, 0, stale))

\* a constructed CommonData: the members and what calculate() stored
Calculated(cd, stale) ==
  LET object(members) ==
        Once(LAMBDA c :
               [st |-> c.st, variant |-> members.variant, tag |-> members.tag,
                resample_num |-> members.resample_num, points |-> members.points,
                values |-> c.values, scores |-> c.scores],
             calculate(members, stale))
  IN  Once(object, cd)

----------------------------------------------------------------------------
\* What the language leaves open and a build settles: the order std::sort
\* gives to elements that compare equivalent, and what front() of an empty
\* vector does (a hardened build aborts, another reads a value).

TieOrders(n) ==
  {f \in [1..n -> 1..n] : \A i, j \in 1..n : i # j => f[i] # f[j]}

StaleValues == {Num(0), NaN}

FrontOfEmpty ==
  {[aborts |-> TRUE, value |-> NaN]} \cup {[aborts |-> FALSE, value |-> v] : v \in StaleValues}

Builds ==
  {[tie |-> t, front_of_empty |-> f] : t \in TieOrders(MaxSamples + 1), f \in FrontOfEmpty}

\* the build that keeps equivalent elements in place and aborts on front()
ReferenceBuild ==
  [tie |-> [i \in 1..(MaxSamples + 1) |-> i], front_of_empty |-> [aborts |-> TRUE, value |-> NaN]]

\* no object constructed so far
NoData == [st |-> "none"]

----------------------------------------------------------------------------
\* SamplingTrajectoryData: the candidates and their ranking.

\* double to size_t: the fraction is dropped
ToSize(x) == x.n \div x.d

\* motion_utils::calcInterpolatedPose: the pose at arc length s from the first
\* point, the last point's behind the end of the path
calcInterpolatedPose(points, s) ==
  LET first == points[1].pose.position.x
      last == points[Len(points)].pose.position.x
  IN  Pose(clamp(DAdd(first, s), first, last), 1)

\* motion_utils::calcInterpolatedPoint: the point of the plan at the pose,
\* with the velocity, acceleration and wheel angle of the segment's start
calcInterpolatedPoint(trajectory, pose) ==
  LET at_or_before == {k \in 1..Len(trajectory.points) :
                         ~DLt(pose.position.x, trajectory.points[k].pose.position.x)}
      seg == IF at_or_before = {} THEN 1
             ELSE CHOOSE k \in at_or_before : \A l \in at_or_before : l <= k
  IN  [trajectory.points[seg] EXCEPT !.pose = pose]

\* motion_utils::findFirstNearestSegmentIndexWithSoftConstraints: the index,
\* from 0, of the segment of the path the pose lies on
findFirstNearestSegmentIndexWithSoftConstraints(points, pose) ==
  LET passed == {k \in 0..(Len(points) - 2) :
                   ~DLt(pose.position.x, At(points, k).pose.position.x)}
  IN  IF passed = {} THEN 0 ELSE CHOOSE k \in passed : \A l \in passed : l <= k

\* motion_utils::calcLongitudinalOffsetToSegment: how far along the segment
\* the point lies
calcLongitudinalOffsetToSegment(points, seg_idx, search_point_geom) ==
  DSub(search_point_geom.x, At(points, seg_idx).pose.position.x)

\* convertToFrenetPoint; the path of the model is straight, so that the
\* lateral offset is 0
convertToFrenetPoint(points, search_point_geom, seg_idx) ==
  LET longitudinal_length ==
        calcLongitudinalOffsetToSegment(points, seg_idx, search_point_geom)
  IN  [length |-> DAdd(calcSignedArcLength(points, 0, seg_idx), longitudinal_length),
       distance |-> Num(0)]

\* the iterations of the loop of resampling from time t on
RECURSIVE resampling_loop(_, _, _, _, _, _)
resampling_loop(trajectory, vehicle_pose_frenet, length, t, time_horizon, time_resolution) ==
  IF ~DLt(t, time_horizon) THEN <<>>
  ELSE LET pose == calcInterpolatedPose(trajectory.points,
                                        DAdd(vehicle_pose_frenet.length, length))
           step(p_trajectory) ==
             LET pred_accel == p_trajectory.acceleration_mps2
                 pred_velocity == p_trajectory.longitudinal_velocity_mps
             IN  DAdd(DMul(pred_velocity, time_resolution),
                      DMul(DMul(DMul(Frac(1, 2), pred_accel), time_resolution),
                           time_resolution))
           push_back(p_trajectory) ==
             Once(LAMBDA next :
                    <<p_trajectory>>
                      \o resampling_loop(trajectory, vehicle_pose_frenet, next.length,
                                         next.t, time_horizon, time_resolution),
                  [length |-> DAdd(length, step(p_trajectory)),
                   t |-> DAdd(t, time_resolution)])
       IN  Once(push_back, calcInterpolatedPoint(trajectory, pose))

\* SamplingTrajectoryData::resampling
resampling(trajectory, init_odometory, time_horizon, time_resolution) ==
  LET ego_seg_idx ==
        findFirstNearestSegmentIndexWithSoftConstraints(trajectory.points,
                                                        init_odometory.pose.pose)
      loop(vehicle_pose_frenet) ==
        resampling_loop(trajectory, vehicle_pose_frenet, Num(0), Num(0), time_horizon,
                        time_resolution)
  IN  Once(loop, convertToFrenetPoint(trajectory.points, init_odometory.pose.pose.position,
                                      ego_seg_idx))

\* std::stable_sort with the comparator a.total() > b.total()
std_stable_sort(data) ==
  LET n == Len(data)
      sorted(tot) ==
        LET comp(i, j) == DLt(tot[j], tot[i])
            before(i, j) == comp(i, j) \/ (~comp(j, i) /\ i < j)
            place(key) == [k \in 1..n |-> data[CHOOSE i \in 1..n : key[i] = k - 1]]
        IN  Once(place, [i \in 1..n |-> Cardinality({j \in 1..n : before(j, i)})])
  IN  Once(sorted, [i \in 1..n |-> total(data[i].scores)])

\* a ranking that puts a candidate of the highest total at every rank
std_sort_fill(data, tie) ==
  LET n == Len(data)
      tot == [i \in 1..n |-> total(data[i].scores)]
  IN  [k \in 1..n |-> data[CHOOSE i \in 1..n : \A j \in 1..n : ~DLt(tot[i], tot[j])]]

\* std::sort with the comparator a.total() > b.total(): descending totals,
\* elements of equal total in the order tie of the build. A NaN total breaks
\* the comparator's contract and leaves the order to the build altogether.
std_sort(data, tie) ==
  LET n == Len(data)
      sorted(tot) ==
        LET comp(i, j) == DLt(tot[j], tot[i])
            unordered == \E i \in 1..n : IsNaN(tot[i])
            before(i, j) ==
              IF unordered THEN tie[i] < tie[j]
              ELSE comp(i, j) \/ (~comp(j, i) /\ tie[i] < tie[j])
            place(key) == [k \in 1..n |-> data[CHOOSE i \in 1..n : key[i] = k - 1]]
        IN  Once(place, [i \in 1..n |-> Cardinality({j \in 1..n : before(j, i)})])
  IN  Once(sorted, [i \in 1..n |-> total(data[i].scores)])

\* the outcome of constructing the first candidate alone
Outcomes_first(cs) == IF cs = <<>> THEN "ok" ELSE cs[1].st

\* the outcome of constructing the candidates one after the other
RECURSIVE Outcomes(_)
Outcomes(cs) == IF cs = <<>> THEN "ok" ELSE Then(cs[1].st, Outcomes(Tail(cs)))

\* a constructor that does not ask for the acceleration record
SamplingTrajectoryData_no_accel(td, vehicle_info, time_horizon, time_resolution, samples, bld) ==
  LET opt_odometry == Buffer_get(td.buf_odometry, td.timestamp)
      opt_trajectory == Buffer_get(td.buf_trajectory, td.timestamp)
      failed(st) == [st |-> st, data |-> <<>>, generated |-> <<>>]
      stale == bld.front_of_empty.value
      candidate(tag, points) ==
        Calculated(TrajectoryData(td, vehicle_info, ToSize(time_horizon), time_resolution,
                                  tag, points), stale)
      autoware ==
        candidate("autoware",
                  resampling(opt_trajectory.value, opt_odometry.value, time_horizon,
                             time_resolution))
      emplaced ==
        <<autoware>> \o [k \in 1..Len(samples) |-> candidate("frenet", samples[k])]
      sorted(generated) ==
        LET st == Outcomes(generated)
        IN  IF st \in {"ub", "ub_throw"} /\ bld.front_of_empty.aborts THEN failed("abort")
            ELSE IF st \in {"throw", "ub_throw"} THEN failed("throw")
            ELSE [st |-> st, data |-> std_sort(generated, bld.tie), generated |-> generated]
  IN  IF ~opt_odometry.has_value THEN failed("logic_error")
      ELSE IF ~opt_trajectory.has_value THEN failed("logic_error")
      ELSE Once(sorted, emplaced)

\* SamplingTrajectoryData::SamplingTrajectoryData; samples is what sampling()
\* returns and bld the build. st is "logic_error" or "throw" when the
\* constructor throws, "abort" when the build aborts on front().
SamplingTrajectoryData(td, vehicle_info, time_horizon, time_resolution, samples, bld) ==
  LET opt_odometry == Buffer_get(td.buf_odometry, td.timestamp)
      opt_accel == Buffer_get(td.buf_accel, td.timestamp)
      opt_trajectory == Buffer_get(td.buf_trajectory, td.timestamp)
      failed(st) == [st |-> st, data |-> <<>>, generated |-> <<>>]
      stale == bld.front_of_empty.value
      candidate(tag, points) ==
        Calculated(TrajectoryData(td, vehicle_info, ToSize(time_horizon), time_resolution,
                                  tag, points), stale)
      autoware ==
        candidate("autoware",
                  resampling(opt_trajectory.value, opt_odometry.value, time_horizon,
                             time_resolution))
      emplaced ==
        <<autoware>> \o [k \in 1..Len(samples) |-> candidate("frenet", samples[k])]
      sorted(generated) ==
        LET st == Outcomes(generated)
        IN  IF st \in {"ub", "ub_throw"} /\ bld.front_of_empty.aborts THEN failed("abort")
            ELSE IF st \in {"throw", "ub_throw"} THEN failed("throw")
            ELSE [st |-> st, data |-> std_sort(generated, bld.tie), generated |-> generated]
  IN  IF ~opt_odometry.has_value THEN failed("logic_error")
      ELSE IF ~opt_accel.has_value THEN failed("logic_error")
      ELSE IF ~opt_trajectory.has_value THEN failed("logic_error")
      ELSE Once(sorted, emplaced)

\* the candidate of the last rank
best_last(s) == s.data[Len(s.data)]

\* SamplingTrajectoryData::best
best(s) == s.data[1]

\* SamplingTrajectoryData::autoware: std::find_if from the first rank on, then
\* *itr. nullopt stands for the dereference of end(), which is undefined.
autoware(s) ==
  LET itr == {k \in 1..Len(s.data) : s.data[k].tag = "autoware"}
  IN  IF itr = {} THEN nullopt
      ELSE Some(s.data[CHOOSE k \in itr : \A j \in itr : k <= j])

----------------------------------------------------------------------------
\* The record of the last call.

Call(op, now, before, opt, ready) ==
  [op |-> op, prev |-> "none", now |-> now, before |-> before, opt |-> opt, ready |-> ready]

\* the same, remembering whether the call before was an evict
CallAfter(op, now, before, opt, ready) ==
  [Call(op, now, before, opt, ready)
     EXCEPT !.prev = IF ret.op = "remove_old_data" THEN ret.op ELSE "none"]

NoCall(before) ==
  [op |-> "none", prev |-> "none", now |-> 0, before |-> before, opt |-> nullopt,
   ready |-> FALSE]

----------------------------------------------------------------------------
\* A stand-alone Buffer<T>: any caller, any order of stamps.

InitBuffer ==
  /\ kind \in Kinds
  /\ msgs = <<>>
  /\ trimmed_data = TrimmedData(0)
  /\ ret = NoCall(<<>>)
  /\ ub = FALSE
  /\ build = ReferenceBuild
  /\ common_data = NoData
  /\ sampling = NoData
  /\ time_keeper = NoData
  /\ selector = NoData

BufAppend(msg) ==
  /\ ~ub
  /\ Len(msgs) < MaxLen
  /\ msgs' = append(msgs, msg)
  /\ ret' = CallAfter("append", 0, msgs, Some(msg), FALSE)
  /\ UNCHANGED <<build, common_data, sampling, kind, trimmed_data, ub, selector, time_keeper>>

BufRemoveOldData(now) ==
  /\ ~ub
  /\ \/ /\ \E m \in remove_old_data(kind, msgs, now) : msgs' = m
        /\ ret' = CallAfter("remove_old_data", now, msgs, nullopt, FALSE)
        /\ UNCHANGED <<build, common_data, sampling, kind, trimmed_data, ub, selector, time_keeper>>
     \/ /\ remove_old_data_ub(kind, msgs, now)
        /\ ub' = TRUE
        /\ ret' = CallAfter("remove_old_data", now, msgs, nullopt, FALSE)
        /\ UNCHANGED <<build, common_data, sampling, kind, msgs, trimmed_data, selector, time_keeper>>

BufGet(now) ==
  /\ ~ub
  /\ \/ /\ \E r \in get(kind, msgs, now) :
             ret' = CallAfter("get", now, msgs, r, FALSE)
        /\ UNCHANGED <<build, common_data, sampling, kind, msgs, trimmed_data, ub, selector, time_keeper>>
     \/ /\ get_ub(kind, msgs, now)
        /\ ub' = TRUE
        /\ ret' = CallAfter("get", now, msgs, nullopt, FALSE)
        /\ UNCHANGED <<build, common_data, sampling, kind, msgs, trimmed_data, selector, time_keeper>>

\* get(): the first record; on an empty buffer the read ends the process or
\* yields an arbitrary record
BufGetFront ==
  /\ ~ub
  /\ \/ /\ ~Buffer_get_front_ub(msgs)
        /\ ret' = CallAfter("get()", 0, msgs, Some(Buffer_get_front(msgs)), FALSE)
        /\ UNCHANGED <<build, common_data, sampling, kind, msgs, trimmed_data, ub, selector, time_keeper>>
     \/ /\ Buffer_get_front_ub(msgs)
        /\ ub' = TRUE
        /\ ret' = CallAfter("get()", 0, msgs, nullopt, FALSE)
        /\ UNCHANGED <<build, common_data, sampling, kind, msgs, trimmed_data, selector, time_keeper>>
     \/ /\ Buffer_get_front_ub(msgs)
        /\ \E msg \in MsgsOf(kind) : ret' = CallAfter("get()", 0, msgs, Some(msg), FALSE)
        /\ UNCHANGED <<build, common_data, sampling, kind, msgs, trimmed_data, ub, selector, time_keeper>>

BufIsReady ==
  /\ ~ub
  /\ ret' = CallAfter("is_ready", 0, msgs, nullopt, is_ready(kind, msgs))
  /\ UNCHANGED <<build, common_data, sampling, kind, msgs, trimmed_data, ub, selector, time_keeper>>

NextBuffer ==
  \/ \E msg \in MsgsOf(kind) : BufAppend(msg)
  \/ \E now \in Stamps : BufRemoveOldData(now)
  \/ \E now \in Stamps : BufGet(now)
  \/ BufGetFront
  \/ BufIsReady

SpecBuffer == InitBuffer /\ [][NextBuffer]_vars

----------------------------------------------------------------------------
\* The TrimmedData object, fed in time order (the messages of a bag are read in
\* the order of their time, each stream with increasing stamps), advanced by
\* update and queried.

\* the stamps fed to the snapshot: the start and the end of the time range
SnapStamps == {0, MaxTick * Tick}

SnapMsgsOf(k) ==
  CASE k = "header" -> {Header(s) : s \in SnapStamps}
    [] k = "steer" -> {[stamp |-> s] : s \in SnapStamps}
    [] k = "tf" -> {[transforms |-> <<>>]}
                     \cup {[transforms |-> <<Header(s)>>] : s \in SnapStamps}

\* the stamp a message is filed under, -1 for a batch without transforms
FeedStamp(k, msg) ==
  CASE k = "header" -> msg.header.stamp
    [] k = "steer" -> msg.stamp
    [] k = "tf" -> IF msg.transforms = <<>> THEN -1 ELSE msg.transforms[1].header.stamp

InitSnapshot ==
  /\ kind = "header"
  /\ msgs = <<>>
  /\ trimmed_data = TrimmedData(0)
  /\ ret = NoCall(<<>>)
  /\ ub = FALSE
  /\ build = ReferenceBuild
  /\ common_data = NoData
  /\ sampling = NoData
  /\ time_keeper = NoData
  /\ selector = NoData

SnapAppend(b, msg) ==
  /\ ~ub
  /\ Len(trimmed_data[b]) < MaxSnapLen
  /\ \A i \in 1..Len(trimmed_data[b]) :
       FeedStamp(KindOf(b), trimmed_data[b][i]) < FeedStamp(KindOf(b), msg)
         \/ FeedStamp(KindOf(b), msg) = -1
  /\ trimmed_data' = [trimmed_data EXCEPT ![b] = append(@, msg)]
  /\ ret' = Call("append", 0, <<>>, nullopt, FALSE)
  /\ UNCHANGED <<build, common_data, sampling, kind, msgs, ub, selector, time_keeper>>

SnapUpdate(dt) ==
  /\ ~ub
  /\ trimmed_data.timestamp + dt <= MaxTick * Tick
  /\ \/ /\ \E td \in TrimmedData_update(trimmed_data, dt) : trimmed_data' = td
        /\ ret' = Call("update", dt, trimmed_data, nullopt, FALSE)
        /\ UNCHANGED <<build, common_data, sampling, kind, msgs, ub, selector, time_keeper>>
     \/ /\ TrimmedData_update_ub(trimmed_data, dt)
        /\ ub' = TRUE
        /\ ret' = Call("update", dt, trimmed_data, nullopt, FALSE)
        /\ UNCHANGED <<build, common_data, sampling, kind, msgs, trimmed_data, selector, time_keeper>>

SnapRemoveOldData ==
  /\ ~ub
  /\ \/ /\ \E td \in TrimmedData_remove_old_data(trimmed_data) : trimmed_data' = td
        /\ ret' = Call("remove_old_data", 0, trimmed_data, nullopt, FALSE)
        /\ UNCHANGED <<build, common_data, sampling, kind, msgs, ub, selector, time_keeper>>
     \/ /\ TrimmedData_remove_old_data_ub(trimmed_data)
        /\ ub' = TRUE
        /\ ret' = Call("remove_old_data", 0, trimmed_data, nullopt, FALSE)
        /\ UNCHANGED <<build, common_data, sampling, kind, msgs, trimmed_data, selector, time_keeper>>

SnapIsReady ==
  /\ ~ub
  /\ ret' = Call("is_ready", 0, <<>>, nullopt, TrimmedData_is_ready(trimmed_data))
  /\ UNCHANGED <<build, common_data, sampling, kind, msgs, trimmed_data, ub, selector, time_keeper>>

NextSnapshot ==
  \/ \E b \in BufferNames : \E msg \in SnapMsgsOf(KindOf(b)) : SnapAppend(b, msg)
  \/ \E dt \in {Tick, MaxTick * Tick} : SnapUpdate(dt)
  \/ SnapRemoveOldData
  \/ SnapIsReady

SpecSnapshot == InitSnapshot /\ [][NextSnapshot]_vars

----------------------------------------------------------------------------
\* Metric extraction: a snapshot holding a log of each stream, from which a
\* ManualDrivingData or a TrajectoryData is constructed.

time_resolutions == {Frac(1, 2)}

VehicleInfos == {[wheel_base_m |-> Num(4)]}

\* the stamp of the k-th record of a log: one record per half second
LogStamp(k) == (NS_1E9 \div 2) * k + 2

\* n records of driving at 10 m/s
Cruise(n) == [k \in 1..n |-> Odometry(LogStamp(k - 1), Num(5 * (k - 1)), Num(10))]

\* n records of standing still
Halt(n) == [k \in 1..n |-> Odometry(LogStamp(k - 1), Num(0), Num(0))]

OdometryLogs == {Cruise(MaxN), Halt(MaxN), Cruise(MaxN - 1)}

Steady(n) == [k \in 1..n |-> AccelWithCovarianceStamped(LogStamp(k - 1), Num(0))]

Ramp(n) == [k \in 1..n |-> AccelWithCovarianceStamped(LogStamp(k - 1), Frac(k - 1, 10))]

\* a record for the first step and one for all later steps
Sparse(n) ==
  <<AccelWithCovarianceStamped(LogStamp(0), Num(0)),
    AccelWithCovarianceStamped(LogStamp(n - 1), Num(1))>>

AccelLogs == {Steady(MaxN), Ramp(MaxN), Sparse(MaxN)}

Steering(n, tangent) == [k \in 1..n |-> SteeringReport(LogStamp(k - 1), tangent)]

SteerLogs == {Steering(MaxN, Num(0)), Steering(MaxN, Frac(1, 100)), Steering(MaxN - 1, Num(0))}

\* n records, each with the same objects
Scene(n, objects) == [k \in 1..n |-> PredictedObjects(LogStamp(k - 1), objects)]

\* a standing object 30 m ahead, and a faster one driving away
Standing == PredictedObject(Num(30), 1, Num(0))

Leaving == PredictedObject(Num(30), 1, Num(20))

\* the scenes of MaxN steps, one with an object at the second step only, a
\* scene one step short, and the empty scene of five steps
ObjectLogs ==
  {Scene(MaxN, <<>>), Scene(MaxN, <<Standing>>), Scene(MaxN, <<Leaving>>),
   Scene(MaxN, <<Standing, Leaving>>), Scene(MaxN - 1, <<>>),
   [k \in 1..MaxN |->
      PredictedObjects(LogStamp(k - 1), IF k = 2 THEN <<Standing>> ELSE <<>>)],
   Scene(5, <<>>)}

\* n points 5 m apart at 10 m/s, the acceleration rising by slope per point
Path(n, slope, tangent) ==
  [k \in 1..n |-> TrajectoryPoint(Num(5 * (k - 1)), Num(10), DMul(slope, Num(k - 1)), tangent)]

PointLists ==
  {Path(MaxN, Num(0), Num(0)), Path(MaxN, Frac(1, 10), Frac(1, 100)),
   Path(MaxN, Num(1), Frac(1, 5)), Path(MaxN - 1, Num(0), Num(0)), <<>>,
   Path(5, Num(0), Num(0))}

InitMetrics ==
  /\ kind = "header"
  /\ msgs = <<>>
  /\ \E odometry \in OdometryLogs, accel \in AccelLogs, steer \in SteerLogs,
        objects \in ObjectLogs :
       trimmed_data = [TrimmedData(0) EXCEPT !.buf_odometry = odometry,
                                             !.buf_accel = accel,
                                             !.buf_steer = steer,
                                             !.buf_objects = objects]
  /\ ret = NoCall(<<>>)
  /\ ub = FALSE
  /\ \E f \in FrontOfEmpty : build = [ReferenceBuild EXCEPT !.front_of_empty = f]
  /\ common_data = NoData
  /\ sampling = NoData
  /\ time_keeper = NoData
  /\ selector = NoData

\* a construction that takes the object records it read out of the snapshot
Constructed_consuming(op, cd) ==
  /\ ~ub
  /\ common_data = NoData
  /\ IF cd.st \in {"ub", "ub_throw"} /\ build.front_of_empty.aborts
       THEN ub' = TRUE /\ common_data' = NoData
       ELSE ub' = FALSE /\ common_data' = cd
  /\ ret' = Call(op, 0, <<>>, nullopt, FALSE)
  /\ trimmed_data' = [trimmed_data EXCEPT !.buf_objects = <<>>]
  /\ UNCHANGED <<build, sampling, kind, msgs, selector, time_keeper>>

\* the constructor returned or threw, or the build aborted it on front(); one
\* object is constructed from a snapshot
Constructed(op, cd) ==
  /\ ~ub
  /\ common_data = NoData
  /\ IF cd.st \in {"ub", "ub_throw"} /\ build.front_of_empty.aborts
       THEN ub' = TRUE /\ common_data' = NoData
       ELSE ub' = FALSE /\ common_data' = cd
  /\ ret' = Call(op, 0, <<>>, nullopt, FALSE)
  /\ UNCHANGED <<build, sampling, kind, msgs, trimmed_data, selector, time_keeper>>

\* ManualDrivingData::ManualDrivingData
ConstructManual(vehicle_info, resample_num, time_resolution) ==
  Constructed("ManualDrivingData",
              Calculated(ManualDrivingData(trimmed_data, vehicle_info, resample_num,
                                           time_resolution),
                         build.front_of_empty.value))

\* TrajectoryData::TrajectoryData
ConstructTrajectory(vehicle_info, resample_num, time_resolution, tag, points) ==
  Constructed("TrajectoryData",
              Calculated(TrajectoryData(trimmed_data, vehicle_info, resample_num,
                                        time_resolution, tag, points),
                         build.front_of_empty.value))

NextMetrics ==
  \/ \E vehicle_info \in VehicleInfos, resample_num \in 0..MaxN,
        time_resolution \in time_resolutions :
       ConstructManual(vehicle_info, resample_num, time_resolution)
  \/ \E vehicle_info \in VehicleInfos, resample_num \in 0..MaxN \cup {5},
        time_resolution \in time_resolutions, points \in PointLists :
       ConstructTrajectory(vehicle_info, resample_num, time_resolution, "frenet", points)

SpecMetrics == InitMetrics /\ [][NextMetrics]_vars

----------------------------------------------------------------------------
\* Ranking: a snapshot from which a SamplingTrajectoryData is constructed, and
\* constructed once more from the same snapshot and the same sampler output.

Trajectory(s, points) == [header |-> [stamp |-> s], points |-> points]

\* the plan: straight ahead at 10 m/s
Plan == Trajectory(LogStamp(0), Path(2 * MaxN, Num(0), Num(0)))

\* a snapshot with the streams the constructor reads
Seed(objects) ==
  [TrimmedData(0) EXCEPT !.buf_odometry = Cruise(MaxN),
                         !.buf_accel = Steady(MaxN),
                         !.buf_trajectory = <<Plan>>,
                         !.buf_objects = objects]

\* all streams there, with one of two scenes or a scene one step short, or
\* one stream missing
Seeds ==
  {Seed(Scene(MaxN, <<>>)), Seed(Scene(MaxN, <<Leaving>>)), Seed(Scene(MaxN - 1, <<>>)),
   [Seed(Scene(MaxN, <<>>)) EXCEPT !.buf_odometry = <<>>],
   [Seed(Scene(MaxN, <<>>)) EXCEPT !.buf_accel = <<>>],
   [Seed(Scene(MaxN, <<>>)) EXCEPT !.buf_trajectory = <<>>]}

\* the point lists the sampler returns: the last two differ in the wheel angle
\* only
SamplePoints ==
  {Path(MaxN, Num(0), Num(0)), Path(MaxN, Num(0), Frac(1, 10)),
   Path(MaxN, Num(0), Frac(1, 5))}

\* what sampling() returns: up to MaxSamples point lists, or one list too short
\* for MaxN steps
SamplerOutputs ==
  UNION {[1..n -> SamplePoints] : n \in 0..MaxSamples}
    \cup {<<Path(MaxN - 1, Num(0), Num(0))>>}

InitRank ==
  /\ kind = "header"
  /\ msgs = <<>>
  /\ trimmed_data \in Seeds
  /\ ret = NoCall(NoData)
  /\ ub = FALSE
  /\ build \in Builds
  /\ common_data = NoData
  /\ sampling = NoData
  /\ time_keeper = NoData
  /\ selector = NoData

\* the arguments of a construction and what sampling() returned in it
Pass(vehicle_info, time_horizon, time_resolution, samples) ==
  [vehicle_info |-> vehicle_info, time_horizon |-> time_horizon,
   time_resolution |-> time_resolution, samples |-> samples]

\* the first construction from the snapshot, or one repetition of it. ret.opt
\* holds the pass and ret.before the object of the construction before.
Repeatable(pass) ==
  \/ sampling = NoData
  \/ ret.opt = Some(pass) /\ ret.before = NoData

\* a construction in which std::sort orders equal totals as it likes
ConstructSampling_any_tie(vehicle_info, time_horizon, time_resolution, samples) ==
  /\ ~ub
  /\ Repeatable(Pass(vehicle_info, time_horizon, time_resolution, samples))
  /\ \E tie \in TieOrders(MaxSamples + 1) :
       \E s \in {SamplingTrajectoryData(trimmed_data, vehicle_info, time_horizon,
                                         time_resolution, samples,
                                         [build EXCEPT !.tie = tie])} :
         IF s.st = "abort"
           THEN ub' = TRUE /\ sampling' = sampling
           ELSE ub' = FALSE /\ sampling' = s
  /\ ret' = Call("SamplingTrajectoryData", 0, sampling,
                 Some(Pass(vehicle_info, time_horizon, time_resolution, samples)), FALSE)
  /\ UNCHANGED <<build, common_data, kind, msgs, trimmed_data, selector, time_keeper>>

\* SamplingTrajectoryData::SamplingTrajectoryData
ConstructSampling(vehicle_info, time_horizon, time_resolution, samples) ==
  /\ ~ub
  /\ Repeatable(Pass(vehicle_info, time_horizon, time_resolution, samples))
  /\ \E s \in {SamplingTrajectoryData(trimmed_data, vehicle_info, time_horizon,
                                       time_resolution, samples, build)} :
       IF s.st = "abort"
         THEN ub' = TRUE /\ sampling' = sampling
         ELSE ub' = FALSE /\ sampling' = s
  /\ ret' = Call("SamplingTrajectoryData", 0, sampling,
                 Some(Pass(vehicle_info, time_horizon, time_resolution, samples)), FALSE)
  /\ UNCHANGED <<build, common_data, kind, msgs, trimmed_data, selector, time_keeper>>

\* SamplingTrajectoryData::best, called on a constructed object
Best ==
  /\ ~ub
  /\ sampling.st \in {"ok", "ub"}
  /\ ret' = Call("best", 0, sampling, Some(best(sampling)), FALSE)
  /\ UNCHANGED <<build, common_data, kind, msgs, sampling, trimmed_data, ub, selector, time_keeper>>

\* SamplingTrajectoryData::autoware, called on a constructed object
Autoware ==
  /\ ~ub
  /\ sampling.st \in {"ok", "ub"}
  /\ ret' = Call("autoware", 0, sampling, autoware(sampling), FALSE)
  /\ ub' = ~autoware(sampling).has_value
  /\ UNCHANGED <<build, common_data, kind, msgs, sampling, trimmed_data, selector, time_keeper>>

NextRank ==
  \/ \E vehicle_info \in VehicleInfos, resample_num \in {MaxN},
        time_resolution \in time_resolutions, samples \in SamplerOutputs :
       ConstructSampling(vehicle_info, Num(resample_num), time_resolution, samples)
  \/ Best
  \/ Autoware

SpecRank == InitRank /\ [][NextRank]_vars

----------------------------------------------------------------------------
\* Extraction as a whole: from a snapshot of either kind a ManualDrivingData,
\* a TrajectoryData or a SamplingTrajectoryData is constructed.

InitExtract == InitMetrics \/ InitRank

NextExtract ==
  \/ sampling = NoData /\ NextMetrics
  \/ common_data = NoData /\ NextRank

SpecExtract == InitExtract /\ [][NextExtract]_vars

----------------------------------------------------------------------------
\* Constructions at more than one time resolution, from a snapshot whose logs
\* are long enough for MaxN steps a second apart and whose acceleration, in
\* the log and along the plan, rises.

JerkResolutions == {Frac(1, 2), Num(1)}

\* the plan's acceleration rises by slope per point
JerkSeed(slope) ==
  [TrimmedData(0) EXCEPT !.buf_odometry = Cruise(2 * MaxN),
                         !.buf_accel = Ramp(2 * MaxN),
                         !.buf_steer = Steering(2 * MaxN, Num(0)),
                         !.buf_trajectory =
                           <<Trajectory(LogStamp(0), Path(2 * MaxN, slope, Num(0)))>>,
                         !.buf_objects = Scene(2 * MaxN, <<>>)]

InitJerk ==
  /\ kind = "header"
  /\ msgs = <<>>
  /\ trimmed_data \in {JerkSeed(Num(1)), JerkSeed(Frac(1, 10))}
  /\ ret = NoCall(NoData)
  /\ ub = FALSE
  /\ \E f \in FrontOfEmpty : build = [ReferenceBuild EXCEPT !.front_of_empty = f]
  /\ common_data = NoData
  /\ sampling = NoData
  /\ time_keeper = NoData
  /\ selector = NoData

NextJerk ==
  \/ \E vehicle_info \in VehicleInfos, resample_num \in 1..MaxN,
        time_resolution \in JerkResolutions :
       /\ sampling = NoData
       /\ ConstructManual(vehicle_info, resample_num, time_resolution)
  \/ \E vehicle_info \in VehicleInfos, resample_num \in 1..MaxN,
        time_resolution \in JerkResolutions, points \in PointLists :
       /\ sampling = NoData
       /\ ConstructTrajectory(vehicle_info, resample_num, time_resolution, "frenet", points)
  \/ \E vehicle_info \in VehicleInfos, resample_num \in {MaxN},
        time_resolution \in JerkResolutions, samples \in SamplerOutputs :
       /\ common_data = NoData
       /\ ConstructSampling(vehicle_info, Num(resample_num), time_resolution, samples)

SpecJerk == InitJerk /\ [][NextJerk]_vars

----------------------------------------------------------------------------
\* time_to_collision on its own: the objects of one step and the ego's
\* odometry, from which minimum_ttc takes the pose and the velocity.

\* at most MaxObjects predicted objects in a step
MaxObjects == 2

\* the objects of a step: standing 30 m ahead or driving away (above), driving
\* ahead at the ego's 10 m/s, coming towards the ego at 10 m/s, standing 5 mm
\* ahead, and 1 mm ahead slower than the ego's 10 m/s by 0.5 mm/s
ObjectKinds ==
  {Standing, Leaving,
   PredictedObject(Num(30), 1, Num(10)),
   PredictedObject(Num(30), -1, Num(10)),
   PredictedObject(Frac(1, 200), 1, Num(0)),
   PredictedObject(Frac(1, 1000), 1, Frac(19999, 2000))}

ObjectLists == UNION {[1..n -> ObjectKinds] : n \in 0..MaxObjects}

\* the ego at x = 0, standing or at 10 m/s
EgoOdometries == {Odometry(LogStamp(0), Num(0), vx) : vx \in {Num(0), Num(10)}}

InitTtc ==
  /\ kind = "header"
  /\ msgs = <<>>
  /\ \E objects \in ObjectLists, odometry \in EgoOdometries :
       trimmed_data = [TrimmedData(0) EXCEPT
                         !.buf_objects = <<PredictedObjects(LogStamp(0), objects)>>,
                         !.buf_odometry = <<odometry>>]
  /\ ret = NoCall(<<>>)
  /\ ub = FALSE
  /\ \E f \in FrontOfEmpty : build = [ReferenceBuild EXCEPT !.front_of_empty = f]
  /\ common_data = NoData
  /\ sampling = NoData
  /\ time_keeper = NoData
  /\ selector = NoData

\* minimum_ttc(0) of a source holding the step's objects and odometry:
\* time_to_collision returned a value, or the build aborted it on front()
TimeToCollision ==
  /\ ~ub
  /\ LET odometry == trimmed_data.buf_odometry[1]
         p_ego == odometry.pose.pose
         v_ego == get_velocity_in_world_coordinate(p_ego, odometry.twist.twist.linear.x)
     IN  \E r \in {time_to_collision(trimmed_data.buf_objects[1], p_ego, v_ego,
                                     build.front_of_empty.value)} :
           IF r.st = "ub" /\ build.front_of_empty.aborts
             THEN ub' = TRUE /\ ret' = Call("time_to_collision", 0, <<>>, nullopt, FALSE)
             ELSE ub' = FALSE /\ ret' = Call("time_to_collision", 0, <<>>, Some(r), FALSE)
  /\ UNCHANGED <<build, common_data, sampling, kind, msgs, trimmed_data, selector, time_keeper>>

NextTtc == TimeToCollision

SpecTtc == InitTtc /\ [][NextTtc]_vars

----------------------------------------------------------------------------
\* TimeKeeper (universe_utils/system/time_keeper.hpp): the tree of tracked
\* functions, with the node being tracked, and what report() wrote. A node is
\* named by its place in nodes; the tree lives as long as root_node_ holds it.

\* at most MaxNodes nodes in a tree, and MaxReports reports written
MaxNodes == 2

MaxReports == 1

nullptr == 0

FuncNames == {"f", "g"}

\* what the stop watch measures, in milliseconds
ProcessingTimes == {1}

\* the arguments of report(): streams and publishers, in any number
ReportArgs == {<<>>, <<"ostream">>, <<"publisher">>, <<"ostream", "publisher">>}

\* ProcessingTimeNode::ProcessingTimeNode, and its parent
ProcessingTimeNode(name, parent_node_) ==
  [name_ |-> name, processing_time_ |-> 0, parent_node_ |-> parent_node_]

\* what report_to gave to each argument of one report()
Written(tk, args) ==
  IF args = <<>> THEN <<>> ELSE <<[k \in 1..Len(args) |-> [to |-> args[k], tree |-> tk.nodes]]>>

\* TimeKeeper::TimeKeeper; out is what the streams and publishers were given,
\* report by report
TimeKeeper ==
  [nodes |-> <<>>, root_node_ |-> nullptr, current_time_node_ |-> nullptr, out |-> <<>>]

\* TimeKeeper::start_track: the first track makes the root, a later one a
\* child of the node being tracked
start_track(tk, func_name) ==
  IF tk.current_time_node_ = nullptr
    THEN [tk EXCEPT !.nodes = <<ProcessingTimeNode(func_name, nullptr)>>,
                    !.root_node_ = 1,
                    !.current_time_node_ = 1]
    ELSE [tk EXCEPT !.nodes = Append(tk.nodes,
                                     ProcessingTimeNode(func_name, tk.current_time_node_)),
                    !.current_time_node_ = Len(tk.nodes) + 1]

\* TimeKeeper::end_track: the node being tracked gets its time and its parent
\* is tracked again; another name than the node's throws
end_track(tk, func_name, processing_time) ==
  IF tk.nodes[tk.current_time_node_].name_ # func_name
    THEN [thrown |-> TRUE, tk |-> tk]
    ELSE [thrown |-> FALSE,
          tk |-> [tk EXCEPT !.nodes[tk.current_time_node_].processing_time_ = processing_time,
                            !.current_time_node_ =
                              tk.nodes[tk.current_time_node_].parent_node_]]

\* a report() that writes before it looks at the node being tracked
report_unchecked(tk, args) ==
  [thrown |-> tk.current_time_node_ # nullptr,
   tk |-> [tk EXCEPT !.out = tk.out \o Written(tk, args)]]

\* TimeKeeper::report: throws while a track is open; else report_to each
\* argument, then both pointers are reset and the tree is gone
report(tk, args) ==
  IF tk.current_time_node_ # nullptr
    THEN [thrown |-> TRUE, tk |-> tk]
    ELSE [thrown |-> FALSE,
          tk |-> [tk EXCEPT !.out = tk.out \o Written(tk, args),
                            !.current_time_node_ = nullptr,
                            !.root_node_ = nullptr,
                            !.nodes = <<>>]]

InitTimeKeeper ==
  /\ kind = "header"
  /\ msgs = <<>>
  /\ trimmed_data = TrimmedData(0)
  /\ ret = NoCall(NoData)
  /\ ub = FALSE
  /\ build = ReferenceBuild
  /\ common_data = NoData
  /\ sampling = NoData
  /\ time_keeper = TimeKeeper
  /\ selector = NoData

\* the outcome of a call on the TimeKeeper
Tracked(op, args, r) ==
  /\ time_keeper' = r.tk
  /\ ret' = Call(op, 0, time_keeper, Some([args |-> args, thrown |-> r.thrown]), FALSE)
  /\ UNCHANGED <<build, common_data, kind, msgs, sampling, trimmed_data, selector, ub>>

StartTrack(func_name) ==
  /\ ~ub
  /\ Len(time_keeper.nodes) < MaxNodes
  /\ Tracked("start_track", <<func_name>>, [thrown |-> FALSE,
                                            tk |-> start_track(time_keeper, func_name)])

\* end_track reads the name of the node being tracked: with none, a null
\* pointer is dereferenced
EndTrack(func_name, processing_time) ==
  /\ ~ub
  /\ \/ /\ time_keeper.current_time_node_ # nullptr
        /\ Tracked("end_track", <<func_name>>,
                   end_track(time_keeper, func_name, processing_time))
     \/ /\ time_keeper.current_time_node_ = nullptr
        /\ ub' = TRUE
        /\ ret' = Call("end_track", 0, time_keeper, nullopt, FALSE)
        /\ UNCHANGED <<build, common_data, kind, msgs, sampling, trimmed_data, selector,
                       time_keeper>>

\* report_to reads the tree through root_node_: with no tree and an argument,
\* a null pointer is dereferenced. At most MaxReports reports are written.
Report(args) ==
  /\ ~ub
  /\ (time_keeper.current_time_node_ = nullptr /\ args # <<>>) =>
       Len(time_keeper.out) < MaxReports
  /\ \/ /\ ~(time_keeper.current_time_node_ = nullptr /\ time_keeper.root_node_ = nullptr
             /\ args # <<>>)
        /\ Tracked("report", args, report(time_keeper, args))
     \/ /\ time_keeper.current_time_node_ = nullptr
        /\ time_keeper.root_node_ = nullptr
        /\ args # <<>>
        /\ ub' = TRUE
        /\ ret' = Call("report", 0, time_keeper, nullopt, FALSE)
        /\ UNCHANGED <<build, common_data, kind, msgs, sampling, trimmed_data, selector,
                       time_keeper>>

NextTimeKeeper ==
  \/ \E func_name \in FuncNames : StartTrack(func_name)
  \/ \E func_name \in FuncNames, processing_time \in ProcessingTimes :
       EndTrack(func_name, processing_time)
  \/ \E args \in ReportArgs : Report(args)

SpecTimeKeeper == InitTimeKeeper /\ [][NextTimeKeeper]_vars

----------------------------------------------------------------------------
\* util::retrievePathsBackward of the intersection module: the paths of a
\* graph from a node on. Its definition is not among the sources; its test
\* (test/test_util.cpp) calls it and states what it returns. Nodes are counted
\* from 0, adjacency[i][j] says that j follows i.

\* the graphs tried have at most MaxGraph nodes
MaxGraph == 3

Adjacencies(n) == [0..(n - 1) -> [0..(n - 1) -> BOOLEAN]]

\* the graph of the test: 0 -> 1, 1 -> 2, 1 -> 3, 2 -> 4, 3 -> 5, 4 -> 6,
\* 4 -> 7, 7 -> 4
TestAdjacency ==
  [i \in 0..7 |-> [j \in 0..7 |->
     <<i, j>> \in {<<0, 1>>, <<1, 2>>, <<1, 3>>, <<2, 4>>, <<3, 5>>, <<4, 6>>, <<4, 7>>,
                   <<7, 4>>}]]

\* a search that follows the first successor only
RECURSIVE retrievePathsBackward_first(_, _, _)
retrievePathsBackward_first(adjacency, src_index, visited_indices) ==
  LET path == Append(visited_indices, src_index)
      next_indices == {j \in DOMAIN adjacency :
                         adjacency[src_index][j] /\ \A k \in 1..Len(path) : path[k] # j}
  IN  IF next_indices = {} THEN <<path>>
      ELSE retrievePathsBackward_first(adjacency,
                                       CHOOSE j \in next_indices : \A l \in next_indices : j <= l,
                                       path)

\* retrievePathsBackward(adjacency, src_index, visited_indices, paths): what
\* the call appends to paths. A node none of whose successors is new ends a
\* path; else the new successors are searched from the lowest.
RECURSIVE retrievePathsBackward(_, _, _)
RECURSIVE retrievePathsBackward_loop(_, _, _, _)
retrievePathsBackward(adjacency, src_index, visited_indices) ==
  LET path == Append(visited_indices, src_index)
      is_terminal ==
        \A j \in DOMAIN adjacency :
          adjacency[src_index][j] => \E k \in 1..Len(path) : path[k] = j
  IN  IF is_terminal THEN <<path>>
      ELSE retrievePathsBackward_loop(adjacency, src_index, path, 0)

\* the loop over the successors from next on
retrievePathsBackward_loop(adjacency, src_index, path, next) ==
  IF next \notin DOMAIN adjacency THEN <<>>
  ELSE (IF adjacency[src_index][next] /\ \A k \in 1..Len(path) : path[k] # next
          THEN retrievePathsBackward(adjacency, next, path)
          ELSE <<>>)
         \o retrievePathsBackward_loop(adjacency, src_index, path, next + 1)

\* the graph and the node the function is called with
InitPaths ==
  /\ kind = "header"
  /\ msgs = <<>>
  /\ trimmed_data = TrimmedData(0)
  /\ \E adjacency \in UNION {Adjacencies(n) : n \in 1..MaxGraph} \cup {TestAdjacency} :
       \E src_index \in DOMAIN adjacency :
         ret = NoCall([adjacency |-> adjacency, src_index |-> src_index])
  /\ ub = FALSE
  /\ build = ReferenceBuild
  /\ common_data = NoData
  /\ sampling = NoData
  /\ time_keeper = NoData
  /\ selector = NoData

\* retrievePathsBackward(adjacency, src_ind, {}, paths) with paths empty
RetrievePathsBackward ==
  /\ ret.op = "none"
  /\ ret' = Call("retrievePathsBackward", 0, ret.before,
                 Some(retrievePathsBackward(ret.before.adjacency, ret.before.src_index, <<>>)),
                 FALSE)
  /\ UNCHANGED <<build, common_data, kind, msgs, sampling, trimmed_data, selector,
                 time_keeper, ub>>

NextPaths == RetrievePathsBackward

SpecPaths == InitPaths /\ [][NextPaths]_vars

----------------------------------------------------------------------------
\* raw_vehicle_cmd_selector (vehicle/raw_vehicle_cmd_selector): one
\* RawVehicleCmdSelectPublisher per gear, each subscribed to the command topic
\* of that gear's converter and publishing on the shared topic actuation_cmd;
\* the current gear is the static RawVehicleCmdSelectPublisher::gear_report_.

\* at most MaxCmds commands are published
MaxCmds == 2

\* autoware_auto_vehicle_msgs::msg::GearReport::DRIVE
DRIVE == 2

\* GearReport::report: NEUTRAL, DRIVE, REVERSE
Gears == {1, DRIVE, 20}

\* ActuationCommandStamped messages
Cmds == {"cmd_a", "cmd_b"}

\* the parameters gear1, cmd1, gear2, cmd2, ... of the node; a parameter not
\* set has its default, -1 or ""
Parameter(gear, cmd) == [gear |-> gear, cmd |-> cmd]

ParameterSets ==
  {<<>>,
   <<Parameter(DRIVE, "cmd_drive"), Parameter(20, "cmd_reverse")>>,
   <<Parameter(20, "cmd_reverse"), Parameter(DRIVE, "cmd_drive"),
     Parameter(DRIVE + 256, "cmd_wide")>>,
   <<Parameter(DRIVE, "cmd_drive"), Parameter(-1, ""), Parameter(20, "cmd_reverse")>>,
   <<Parameter(DRIVE, "cmd_drive"), Parameter(20, "")>>}

\* RawVehicleCmdSelectPublisher::RawVehicleCmdSelectPublisher
RawVehicleCmdSelectPublisher(topic_name, gear_num) ==
  [gear_num_ |-> gear_num, sub_cmd_ |-> topic_name]

\* RawVehicleCmdSelector::createPublishers: a publisher for each parameter
\* pair up to the first gear below 0 or the first empty topic name
RECURSIVE createPublishers(_)
createPublishers(parameters) ==
  IF parameters = <<>> THEN <<>>
  ELSE LET gear_num == parameters[1].gear
           topic_name == parameters[1].cmd
       IN  IF gear_num < 0 THEN <<>>
           ELSE IF topic_name = "" THEN <<>>
           ELSE <<RawVehicleCmdSelectPublisher(topic_name, gear_num)>>
                  \o createPublishers(Tail(parameters))

\* RawVehicleCmdSelector::RawVehicleCmdSelector: publishers_ is made, and
\* sub_gear_report_ is left null. actuation_cmd is what was published on the
\* output topic; gear is what the vehicle reported last.
RawVehicleCmdSelector(parameters) ==
  [gear_report_ |-> DRIVE,
   sub_gear_report_ |-> nullptr,
   publishers_ |-> createPublishers(parameters),
   actuation_cmd |-> <<>>,
   gear |-> nullopt]

\* a callbackCmd that publishes whatever the gear is
callbackCmd_any_gear(node, k, cmd) ==
  [node EXCEPT !.actuation_cmd = Append(node.actuation_cmd, cmd)]

\* RawVehicleCmdSelectPublisher::callbackCmd of publishers_[k]
callbackCmd(node, k, cmd) ==
  IF node.gear_report_ = node.publishers_[k].gear_num_
    THEN [node EXCEPT !.actuation_cmd = Append(node.actuation_cmd, cmd)]
    ELSE node

\* RawVehicleCmdSelector::callbackGearReport; gear is report->report, a uint8
callbackGearReport(node, gear) == [node EXCEPT !.gear_report_ = gear % 256]

InitSelector ==
  /\ kind = "header"
  /\ msgs = <<>>
  /\ trimmed_data = TrimmedData(0)
  /\ ret = NoCall(NoData)
  /\ ub = FALSE
  /\ build = ReferenceBuild
  /\ common_data = NoData
  /\ sampling = NoData
  /\ time_keeper = NoData
  /\ \E parameters \in ParameterSets : selector = RawVehicleCmdSelector(parameters)

\* a command arrives on the topic publishers_[k] is subscribed to
CallbackCmd(k, cmd) ==
  /\ k \in 1..Len(selector.publishers_)
  /\ Len(selector.actuation_cmd) < MaxCmds
  /\ selector' = callbackCmd(selector, k, cmd)
  /\ ret' = Call("callbackCmd", 0, selector, Some([k |-> k, cmd |-> cmd]), FALSE)
  /\ UNCHANGED <<build, common_data, kind, msgs, sampling, trimmed_data, time_keeper, ub>>

\* the vehicle publishes a GearReport: the node's callback runs if the node
\* holds a subscription to it
GearReport(gear) ==
  /\ selector' = IF selector.sub_gear_report_ # nullptr
                   THEN callbackGearReport([selector EXCEPT !.gear = Some(gear)], gear)
                   ELSE [selector EXCEPT !.gear = Some(gear)]
  /\ ret' = Call("GearReport", 0, selector, Some(gear), FALSE)
  /\ UNCHANGED <<build, common_data, kind, msgs, sampling, trimmed_data, time_keeper, ub>>

NextSelector ==
  \/ \E k \in 1..3, cmd \in Cmds : CallbackCmd(k, cmd)
  \/ \E gear \in Gears : GearReport(gear)

SpecSelector == InitSelector /\ [][NextSelector]_vars

----------------------------------------------------------------------------
\* The snapshot over filled buffers: advanced by update, asked is_ready, and
\* then queried at the steps of a horizon, as the constructors of the data
\* query it.

\* the stamps of the logs a stream was filled with, in the order of the appends
HorizonLogs ==
  {<<0, Tick, 3 * Tick + 1>>, <<0, 3 * Tick>>, <<Tick, Tick, 3 * Tick>>}

HeaderLog(stamps) == [i \in 1..Len(stamps) |-> Header(stamps[i])]

SteerLog(stamps) == [i \in 1..Len(stamps) |-> [stamp |-> stamps[i]]]

TFLogs ==
  {[i \in 1..Len(stamps) |-> [transforms |-> <<Header(stamps[i])>>]]
     : stamps \in {<<0, Tick, 3 * Tick + 1>>, <<0, 3 * Tick>>}}
    \cup {<<[transforms |-> <<Header(0)>>], [transforms |-> <<>>],
            [transforms |-> <<Header(3 * Tick + 1)>>]>>}

\* the buffers the data is collected from
Collected == {"buf_odometry", "buf_accel", "buf_steer", "buf_objects", "buf_trajectory"}

\* the step at the end of the buffered time and the steps around it
HorizonSteps(time_resolution) ==
  LET last == ToSize(DDiv(Num(BUFFER_TIME), DMul(Num(NS_1E9), time_resolution)))
  IN  {0, 1, last, last + 1}

InitHorizon ==
  /\ kind = "header"
  /\ msgs = <<>>
  /\ \E tf \in TFLogs : \E odometry, objects, accel, steer, trajectory \in HorizonLogs :
       trimmed_data = [timestamp |-> 0,
                       buf_tf |-> tf,
                       buf_odometry |-> HeaderLog(odometry),
                       buf_objects |-> HeaderLog(objects),
                       buf_accel |-> HeaderLog(accel),
                       buf_steer |-> SteerLog(steer),
                       buf_trajectory |-> HeaderLog(trajectory)]
  /\ ret = NoCall(trimmed_data)
  /\ ub = FALSE
  /\ build = ReferenceBuild
  /\ common_data = NoData
  /\ sampling = NoData
  /\ time_keeper = NoData
  /\ selector = NoData

\* TrimmedData::update(dt) on the filled buffers
HorizonUpdate(dt) ==
  /\ ~ub
  /\ ret.op = "none"
  /\ \/ /\ \E td \in TrimmedData_update(trimmed_data, dt) : trimmed_data' = td
        /\ ret' = Call("update", dt, trimmed_data, nullopt, FALSE)
        /\ UNCHANGED <<build, common_data, sampling, kind, msgs, ub, selector, time_keeper>>
     \/ /\ TrimmedData_update_ub(trimmed_data, dt)
        /\ ub' = TRUE
        /\ ret' = Call("update", dt, trimmed_data, nullopt, FALSE)
        /\ UNCHANGED <<build, common_data, sampling, kind, msgs, trimmed_data, selector, time_keeper>>

\* TrimmedData::is_ready(); the record keeps the call made before it and the
\* buffers as they were filled
HorizonIsReady ==
  /\ ~ub
  /\ ret.op \in {"none", "update"}
  /\ ret' = [Call("is_ready", 0, ret.before, nullopt, TrimmedData_is_ready(trimmed_data))
               EXCEPT !.prev = ret.op]
  /\ UNCHANGED <<build, common_data, sampling, kind, msgs, trimmed_data, ub, selector, time_keeper>>

\* get(trimmed_data->timestamp + 1e9 * time_resolution * i) on one buffer, after
\* is_ready was asked
HorizonGet(b, time_resolution, i) ==
  /\ ~ub
  /\ ret.op = "is_ready"
  /\ LET now == StepTime(trimmed_data, time_resolution, i)
         filled == ret.before
         opt == IF b = "buf_steer" THEN Steer_get(trimmed_data[b], now)
                                   ELSE Buffer_get(trimmed_data[b], now)
     IN  ret' = [Call("get", now,
                      [filled |-> filled, buf |-> b,
                       time_resolution |-> time_resolution, i |-> i],
                      opt, ret.ready)
                   EXCEPT !.prev = ret.prev]
  /\ UNCHANGED <<build, common_data, sampling, kind, msgs, trimmed_data, ub, selector, time_keeper>>

NextHorizon ==
  \/ \E dt \in {Tick \div 2, Tick} : HorizonUpdate(dt)
  \/ HorizonIsReady
  \/ \E b \in Collected : \E time_resolution \in JerkResolutions :
       \E i \in HorizonSteps(time_resolution) : HorizonGet(b, time_resolution, i)

SpecHorizon == InitHorizon /\ [][NextHorizon]_vars

----------------------------------------------------------------------------
\* The timestamp of a record, as the claims speak of it.

\* a TFMessage without transforms carries no timestamp
Stamped(k, msg) == k = "tf" => msg.transforms # <<>>

Timestamp(k, msg) ==
  CASE k = "header" -> msg.header.stamp
    [] k = "steer" -> msg.stamp
    [] k = "tf" -> msg.transforms[1].header.stamp

AllStamped(k, m) == \A i \in 1..Len(m) : Stamped(k, m[i])

\* appended with non-decreasing timestamps
NonDecreasing(k, m) ==
  /\ AllStamped(k, m)
  /\ \A i, j \in 1..Len(m) : i < j => Timestamp(k, m[i]) <= Timestamp(k, m[j])

\* the records of b at the positions K make up m, in the order they have in b
IsRestriction(m, b, K) ==
  /\ Len(m) = Cardinality(K)
  /\ \A i \in K : m[Cardinality({j \in K : j <= i})] = b[i]

----------------------------------------------------------------------------
\* C1: on a buffer of header-stamped records appended with non-decreasing
\* timestamps, get(t') called on what evict left returns the front-most record
\* whose timestamp is strictly greater than t', which is also the earliest such
\* record, and returns nullopt exactly when no record has a timestamp > t'.
C1_QueryAfter ==
  (kind = "header" /\ ret.op = "get" /\ NonDecreasing(kind, msgs)) =>
    LET later == {i \in 1..Len(msgs) : msgs[i].header.stamp > ret.now}
    IN  /\ ret.opt.has_value <=> later # {}
        /\ later # {} =>
             /\ \E i \in later : /\ \A j \in later : i <= j
                                 /\ ret.opt.value = msgs[i]
             /\ \A j \in later : ret.opt.value.header.stamp <= msgs[j].header.stamp

\* C1 witness: a get right after an evict that skipped a record at t' exactly
\* and returned a later one
C1_Witness ==
  /\ kind = "header" /\ ret.op = "get" /\ ret.prev = "remove_old_data"
  /\ NonDecreasing(kind, msgs)
  /\ Len(msgs) >= 2
  /\ msgs[1].header.stamp = ret.now
  /\ ret.opt.has_value /\ ret.opt.value.header.stamp > ret.now

\* C2: is_ready() is true iff the buffer is non-empty and the timestamp of the
\* last record minus the timestamp of the first exceeds 20 s; an empty buffer, a
\* single record and a span of exactly 20 s give false.
C2_IsReady ==
  ret.op = "is_ready" =>
    LET n == Len(msgs)
        spans == n > 0 /\ Stamped(kind, msgs[1]) /\ Stamped(kind, msgs[n])
        span == Timestamp(kind, msgs[n]) - Timestamp(kind, msgs[1])
    IN  /\ ret.ready <=> (spans /\ span > BUFFER_TIME)
        /\ n <= 1 => ~ret.ready
        /\ (spans /\ span = BUFFER_TIME) => ~ret.ready

\* C2 witness: is_ready() answered false on a span of exactly 20 s
C2_Witness ==
  /\ ret.op = "is_ready" /\ ~ret.ready
  /\ Len(msgs) >= 2 /\ AllStamped(kind, msgs)
  /\ Timestamp(kind, msgs[Len(msgs)]) - Timestamp(kind, msgs[1]) = BUFFER_TIME

\* C3: remove_old_data(now) on a buffer of any instantiation whose records all
\* carry a timestamp removes exactly the records with timestamp < now and keeps
\* the others (timestamp = now included) in their order; on an empty buffer it
\* changes nothing; in both cases it does not fail.
C3_Evict ==
  (ret.op = "remove_old_data" /\ AllStamped(kind, ret.before)) =>
    /\ ~ub
    /\ IsRestriction(msgs, ret.before,
         {i \in 1..Len(ret.before) : Timestamp(kind, ret.before[i]) >= ret.now})
    /\ ret.before = <<>> => msgs = <<>>

\* C3 witness: an evict that removed an older record and kept one at now and a
\* later one
C3_Witness ==
  /\ ret.op = "remove_old_data" /\ ~ub /\ AllStamped(kind, ret.before)
  /\ Len(ret.before) = 3 /\ Len(msgs) = 2
  /\ Timestamp(kind, msgs[1]) = ret.now
  /\ Timestamp(kind, msgs[2]) > ret.now

\* C6: appending to a ready buffer a record whose timestamp is not older than
\* that of the last record leaves it ready; a call that finds the buffer ready
\* and leaves it not ready is an evict after which the remaining records span
\* no more than 20 s (or an append of a record that is older than the last one
\* or carries no timestamp).
C6_ReadyMonotone ==
  LET b == ret.before
      n == Len(msgs)
      new == ret.opt.value
      inOrder == /\ Stamped(kind, new)
                 /\ Timestamp(kind, new) >= Timestamp(kind, b[Len(b)])
  IN  (ret.op # "none" /\ is_ready(kind, b)) =>
        /\ (ret.op = "append" /\ inOrder) => is_ready(kind, msgs)
        /\ ~is_ready(kind, msgs) =>
             \/ /\ ret.op = "remove_old_data"
                /\ (n > 0 /\ Stamped(kind, msgs[1]) /\ Stamped(kind, msgs[n])) =>
                     Timestamp(kind, msgs[n]) - Timestamp(kind, msgs[1]) <= BUFFER_TIME
             \/ ret.op = "append" /\ ~inOrder

\* C6 witness: a ready buffer that stayed ready over the append of a newer record
C6_Witness ==
  /\ ret.op = "append" /\ is_ready(kind, ret.before) /\ is_ready(kind, msgs)
  /\ AllStamped(kind, msgs)
  /\ Timestamp(kind, ret.opt.value) >= Timestamp(kind, ret.before[Len(ret.before)])

\* the records of buffer b of tdo that an evict at the clock of tdn keeps
KeptAt(b, tdo, tdn) ==
  {i \in 1..Len(tdo[b]) : Timestamp(KindOf(b), tdo[b][i]) >= tdn.timestamp}

\* a step of the snapshot, as C4 speaks of it
C4_Step ==
  LET tdo == trimmed_data
      tdn == trimmed_data'
      evicted == \A b \in BufferNames : IsRestriction(tdn[b], tdo[b], KeptAt(b, tdo, tdn))
      shrunk(b) == \/ Len(tdn[b]) < Len(tdo[b])
                   \/ \E i \in 1..Len(tdo[b]) : tdn[b][i] # tdo[b][i]
  IN  AllStamped("tf", tdo.buf_tf) =>
        /\ ret'.op = "update" =>
             /\ ~ub'
             /\ tdn.timestamp = tdo.timestamp + ret'.now
             /\ evicted
             /\ \A b \in BufferNames : \A i \in 1..Len(tdn[b]) :
                  Timestamp(KindOf(b), tdn[b][i]) >= tdn.timestamp
        /\ (\E b \in BufferNames : shrunk(b)) => evicted

\* C4: update(dt) sets timestamp to timestamp + dt and evicts all six buffers at
\* that new timestamp, so that right after it every record of every buffer has a
\* timestamp >= the snapshot's; and no call removes records from one buffer
\* without evicting all six at the same clock value.
C4_Advance == [][C4_Step]_vars

\* C4 witness: an update that took the oldest record out of each of the six
\* buffers and kept in each the record stamped with the new timestamp
C4_Witness ==
  /\ ret.op = "update" /\ ~ub /\ ret.now > 0
  /\ AllStamped("tf", ret.before.buf_tf)
  /\ \A b \in BufferNames :
       /\ Len(ret.before[b]) = 2 /\ Len(trimmed_data[b]) = 1
       /\ Timestamp(KindOf(b), trimmed_data[b][1]) = trimmed_data.timestamp

\* C5: TrimmedData::is_ready() is true iff is_ready() is true of each of the six
\* buffers; one buffer that is not ready makes the snapshot not ready.
C5_SnapshotReady ==
  ret.op = "is_ready" =>
    LET notReady == {b \in BufferNames : ~is_ready(KindOf(b), trimmed_data[b])}
    IN  ret.ready <=> notReady = {}

\* C5 witness: the snapshot answered not ready with five of its buffers ready
C5_Witness ==
  /\ ret.op = "is_ready" /\ ~ret.ready /\ Len(trimmed_data.buf_tf) > 0
  /\ Cardinality({b \in BufferNames : ~is_ready(KindOf(b), trimmed_data[b])}) = 1

----------------------------------------------------------------------------
\* The metric series and the scores of a constructed CommonData.

METRICS == {"LATERAL_ACCEL", "LONGITUDINAL_JERK", "MINIMUM_TTC", "TRAVEL_DISTANCE"}

SCORES == {"LONGITUDINAL_COMFORTABILITY", "LATERAL_COMFORTABILITY", "EFFICIENCY", "SAFETY"}

\* the constructor of cd returned: calculate() ran to its end
Extracted(cd) == cd.st \in {"ok", "ub"}

FiniteValues(cd) ==
  \A m \in METRICS : \A k \in 1..Len(cd.values[m]) : IsFinite(cd.values[m][k])

\* lo <= x <= hi
Within(x, lo, hi) == ~IsNaN(x) /\ ~DLt(x, lo) /\ ~DLt(hi, x)

\* C7: after metric extraction, for a manual or a trajectory source and any
\* resample_num N, each of the four metric series has exactly N entries and the
\* last entry of the jerk series is exactly 0.
C7_SeriesLength ==
  Extracted(common_data) =>
    /\ \A m \in METRICS : Len(common_data.values[m]) = common_data.resample_num
    /\ common_data.values.LONGITUDINAL_JERK[common_data.resample_num] = Num(0)

\* a manual source over MaxN steps whose jerk before the last step is not 0
C7_Witness ==
  /\ common_data.st = "ok"
  /\ common_data.variant = "manual"
  /\ common_data.resample_num = MaxN
  /\ Len(common_data.values.LONGITUDINAL_JERK) = MaxN
  /\ common_data.values.LONGITUDINAL_JERK[1] # Num(0)
  /\ common_data.values.LONGITUDINAL_JERK[MaxN] = Num(0)

\* C8: for finite metric values and N >= 1, each of the four scores lies in
\* [0, 1] and the total, the sum of the four with weights 1.0, lies in [0, 4].
C8_ScoreRange ==
  (Extracted(common_data) /\ common_data.resample_num >= 1 /\ FiniteValues(common_data)) =>
    /\ \A sc \in SCORES : Within(common_data.scores[sc], Num(0), Num(1))
    /\ Within(total(common_data.scores), Num(0), Num(4))

\* finite values of which one lies beyond its normalization range, and a score
\* strictly between 0 and 1
C8_Witness ==
  /\ common_data.st = "ok"
  /\ common_data.resample_num = MaxN
  /\ FiniteValues(common_data)
  /\ \E k \in 1..MaxN : DLt(Frac(1, 2), DAbs(common_data.values.LATERAL_ACCEL[k]))
  /\ \E sc \in SCORES :
       DLt(Num(0), common_data.scores[sc]) /\ DLt(common_data.scores[sc], Num(1))

----------------------------------------------------------------------------
\* The ranking of a constructed SamplingTrajectoryData.

\* total[k] >= total[k + 1] for all adjacent ranks k
Descending(d) ==
  \A k \in 1..(Len(d) - 1) :
    /\ ~IsNaN(total(d[k].scores)) /\ ~IsNaN(total(d[k + 1].scores))
    /\ ~DLt(total(d[k].scores), total(d[k + 1].scores))

\* two candidates of equal total stand next to each other and are not the same
TieAt(d, k) ==
  /\ k + 1 <= Len(d)
  /\ total(d[k].scores) = total(d[k + 1].scores)
  /\ d[k] # d[k + 1]

\* C9: after the construction of SamplingTrajectoryData the candidates are
\* ordered by total score descending, and candidates of equal total keep the
\* order in which they were generated (stable tie-break), for any number of
\* candidates. Stated for constructions free of undefined behaviour.
C9_StableRanking ==
  sampling.st = "ok" =>
    /\ Descending(sampling.data)
    /\ sampling.data = std_stable_sort(sampling.generated)

\* a ranking, descending, in which two candidates of equal total stand against
\* the order of their generation
C9_Witness ==
  /\ sampling.st = "ok"
  /\ Len(sampling.data) = MaxSamples + 1
  /\ Descending(sampling.data)
  /\ \E k \in 1..MaxSamples : TieAt(sampling.data, k)
  /\ sampling.data # std_stable_sort(sampling.generated)

----------------------------------------------------------------------------
\* The terms of the claims about time_to_collision: the objects of the step,
\* the ego, and the closing velocity of an object along the bearing from the
\* ego to it.

StepObjects == trimmed_data.buf_objects[1].objects

EgoPose == trimmed_data.buf_odometry[1].pose.pose

EgoVelocity ==
  get_velocity_in_world_coordinate(EgoPose, trimmed_data.buf_odometry[1].twist.twist.linear.x)

ObjectPose(k) == StepObjects[k].kinematics.initial_pose_with_covariance.pose

Distance(k) == DAbs(DSub(ObjectPose(k).position.x, EgoPose.position.x))

ClosingVelocity(k) ==
  LET bearing == Num(Sgn(DSub(ObjectPose(k).position.x, EgoPose.position.x)))
      v_object ==
        get_velocity_in_world_coordinate(
          ObjectPose(k), StepObjects[k].kinematics.initial_twist_with_covariance.twist.linear.x)
  IN  DMul(bearing, DSub(EgoVelocity, v_object))

\* the objects whose closing velocity exceeds 1e-3
Approaching == {k \in 1..Len(StepObjects) : DLt(Frac(1, 1000), ClosingVelocity(k))}

MinOf(S) == CHOOSE x \in S : \A y \in S : ~DLt(y, x)

\* C11: when the object set is non-empty and no object has a closing velocity
\* above 1e-3, time_to_collision returns the largest double and does not read
\* from an empty collection.
C11_NoRiskWhenAllDiscarded ==
  (ret.op = "time_to_collision" /\ StepObjects # <<>> /\ Approaching = {}) =>
    /\ ~ub
    /\ ret.opt = Some(Ok(Num(DBL_MAX)))

\* every object drives away, and front() was called on the emptied vector
C11_Witness ==
  /\ ret.op = "time_to_collision"
  /\ StepObjects # <<>>
  /\ \A k \in 1..Len(StepObjects) : DLt(ClosingVelocity(k), Num(0))
  /\ ub \/ ret.opt.value.st = "ub"

\* C12: for a non-empty object set, the minimum TTC is the minimum of
\* distance / closing velocity over exactly the objects whose closing velocity
\* exceeds 1e-3.
C12_MinimumOverApproaching ==
  (ret.op = "time_to_collision" /\ Approaching # {}) =>
    /\ ~ub
    /\ ret.opt = Some(Ok(MinOf({DDiv(Distance(k), ClosingVelocity(k)) : k \in Approaching})))

\* an approaching object whose time to collision is below what was returned
C12_Witness ==
  /\ ret.op = "time_to_collision"
  /\ ~ub
  /\ ret.opt.value.st = "ok"
  /\ \E k \in Approaching : DLt(DDiv(Distance(k), ClosingVelocity(k)), ret.opt.value.v)

----------------------------------------------------------------------------
\* The objects an extraction sampled for its steps.

\* the objects of step k, counted from 1, of the extraction behind common_data
SampledObjects(k) ==
  LET time_resolution == CHOOSE r \in time_resolutions : TRUE
  IN  Buffer_get(trimmed_data.buf_objects, StepTime(trimmed_data, time_resolution, k - 1))

\* what step k adds to the sum safety() divides by resample_num
StepSafety(cd, k) ==
  LET alone == [i \in 1..cd.resample_num |->
                  IF i = k THEN cd.values.MINIMUM_TTC[k] ELSE Num(0)]
  IN  DMul(Num(cd.resample_num), safety([MINIMUM_TTC |-> alone], cd.resample_num))

\* C13: a step whose predicted-object set is empty has the sentinel as its
\* minimum TTC and adds exactly 1.0 to the safety sum, at every step index; a
\* candidate without objects at any step has the safety score 1.0.
C13_EmptyStepIsSafe ==
  Extracted(common_data) =>
    /\ \A k \in 1..common_data.resample_num :
         SampledObjects(k).value.objects = <<>> =>
           /\ common_data.values.MINIMUM_TTC[k] = Num(DBL_MAX)
           /\ StepSafety(common_data, k) = Num(1)
    /\ (\A k \in 1..common_data.resample_num : SampledObjects(k).value.objects = <<>>) =>
         common_data.scores.SAFETY = Num(1)

\* a scene with an object at its second step only: the last step, without
\* objects, adds 1.0 under the weight 0.8^(MaxN - 1), the score is below 1.0
C13_Witness ==
  /\ common_data.st = "ok"
  /\ common_data.resample_num = MaxN
  /\ SampledObjects(2).value.objects # <<>>
  /\ SampledObjects(MaxN).value.objects = <<>>
  /\ common_data.values.MINIMUM_TTC[MaxN] = Num(DBL_MAX)
  /\ StepSafety(common_data, MaxN) = Num(1)
  /\ common_data.scores.SAFETY # Num(1)

----------------------------------------------------------------------------
\* The samples a manual source can collect from the snapshot.

\* the four streams have a record behind the time of step k, counted from 1
Synchronized(k) ==
  LET time_resolution == CHOOSE r \in time_resolutions : TRUE
      now == StepTime(trimmed_data, time_resolution, k - 1)
  IN  /\ Buffer_get(trimmed_data.buf_odometry, now).has_value
      /\ Buffer_get(trimmed_data.buf_accel, now).has_value
      /\ Steer_get(trimmed_data.buf_steer, now).has_value
      /\ Buffer_get(trimmed_data.buf_objects, now).has_value

\* C14: constructing the manual source fails with an error, and produces no
\* metric series, whenever fewer than resample_num synchronized samples of
\* odometry, acceleration, steering or objects can be collected.
C14_InsufficientHistory ==
  (/\ ret.op = "ManualDrivingData"
   /\ common_data # NoData
   /\ \E k \in 1..common_data.resample_num : ~Synchronized(k)) =>
    /\ common_data.st \in {"throw", "ub_throw"}
    /\ \A m \in METRICS : common_data.values[m] = <<>>

\* the first steps have their samples, the last step of MaxN has not, and
\* the constructor threw
C14_Witness ==
  /\ ret.op = "ManualDrivingData"
  /\ common_data # NoData
  /\ common_data.resample_num = MaxN
  /\ \A k \in 1..(MaxN - 1) : Synchronized(k)
  /\ ~Synchronized(MaxN)
  /\ common_data.st = "throw"

----------------------------------------------------------------------------
\* The records a SamplingTrajectoryData is seeded from.

\* get(timestamp) finds an odometry, an acceleration and a plan record
SeedPresent ==
  /\ Buffer_get(trimmed_data.buf_odometry, trimmed_data.timestamp).has_value
  /\ Buffer_get(trimmed_data.buf_accel, trimmed_data.timestamp).has_value
  /\ Buffer_get(trimmed_data.buf_trajectory, trimmed_data.timestamp).has_value

\* C15: the construction fails with an error, before a candidate is built or
\* scored, if get(timestamp) finds no odometry, no acceleration or no plan
\* record; it proceeds only when all three are there.
C15_MissingSeed ==
  (ret.op = "SamplingTrajectoryData" /\ ~ub) =>
    /\ ~SeedPresent =>
         /\ sampling.st = "logic_error"
         /\ sampling.generated = <<>>
         /\ sampling.data = <<>>
    /\ SeedPresent => sampling.st # "logic_error"

\* odometry and plan are there, the acceleration is not, and the constructor
\* threw the logic_error
C15_Witness ==
  /\ ret.op = "SamplingTrajectoryData"
  /\ Buffer_get(trimmed_data.buf_odometry, trimmed_data.timestamp).has_value
  /\ Buffer_get(trimmed_data.buf_trajectory, trimmed_data.timestamp).has_value
  /\ ~Buffer_get(trimmed_data.buf_accel, trimmed_data.timestamp).has_value
  /\ ret.opt.value.samples # <<>>
  /\ sampling.st = "logic_error"

----------------------------------------------------------------------------
\* C16: get() without an argument, front(), fails with a detectable error on an
\* empty buffer: the process goes on and the call hands out no record; on a
\* buffer that holds records it returns the first of them and leaves the
\* buffer as it was.
C16_Front ==
  ret.op = "get()" =>
    IF ret.before = <<>>
      THEN ~ub /\ ~ret.opt.has_value
      ELSE ~ub /\ ret.opt = Some(ret.before[1]) /\ msgs = ret.before

\* front() of an empty buffer handed out a record
C16_Witness ==
  /\ ret.op = "get()"
  /\ ret.before = <<>>
  /\ ~ub
  /\ ret.opt.has_value

----------------------------------------------------------------------------
\* The straight-line scenario: a trajectory source of 5 steps at 0.5 s over
\* points 5 m apart at a constant 10 m/s, with zero wheel angle, zero
\* acceleration and no predicted objects.
StraightLine ==
  /\ common_data.st = "ok"
  /\ common_data.variant = "trajectory"
  /\ common_data.resample_num = 5
  /\ common_data.points = Path(5, Num(0), Num(0))
  /\ \A k \in 1..5 : SampledObjects(k).value.objects = <<>>

\* C17 as stated: in the straight-line scenario the four scores are 1.0 and
\* the total is 4.0.
C17_AllScoresOne ==
  StraightLine =>
    /\ \A sc \in SCORES : common_data.scores[sc] = Num(1)
    /\ total(common_data.scores) = Num(4)

\* C17: in the straight-line scenario lateral comfort, longitudinal comfort and
\* safety are 1.0; the travel distance of step i is 5 i metres, so that
\* efficiency is the mean of clamp(0.8^i * 5 i / 0.5, 0, 20) / 20 over the five
\* steps, 0.52544, and the total is 3.52544.
C17_StraightLineScores ==
  StraightLine =>
    /\ common_data.scores.LATERAL_COMFORTABILITY = Num(1)
    /\ common_data.scores.LONGITUDINAL_COMFORTABILITY = Num(1)
    /\ common_data.scores.SAFETY = Num(1)
    /\ common_data.values.TRAVEL_DISTANCE = [k \in 1..5 |-> Num(5 * (k - 1))]
    /\ common_data.scores.EFFICIENCY = Frac(52544, 100000)
    /\ total(common_data.scores) = Frac(352544, 100000)

C17_Witness ==
  /\ ret.op = "TrajectoryData"
  /\ StraightLine
  /\ common_data.values.LATERAL_ACCEL = [k \in 1..5 |-> Num(0)]
  /\ common_data.values.LONGITUDINAL_JERK = [k \in 1..5 |-> Num(0)]
  /\ common_data.values.MINIMUM_TTC = [k \in 1..5 |-> Num(DBL_MAX)]

----------------------------------------------------------------------------
\* C18: constructing a ManualDrivingData, a TrajectoryData or a
\* SamplingTrajectoryData with its candidates never changes the snapshot: the
\* timestamp and the six buffers are the same before and after, whether the
\* constructor returns, throws or the process ends in it.
C18_SnapshotReadOnly ==
  [][ret'.op \in {"ManualDrivingData", "TrajectoryData", "SamplingTrajectoryData"} =>
       trimmed_data' = trimmed_data]_vars

\* a construction of candidates that threw part-way, the snapshot still one
\* of the seeds
C18_Witness ==
  /\ ret.op = "SamplingTrajectoryData"
  /\ sampling.st = "throw"
  /\ ret.opt.value.samples # <<>>
  /\ trimmed_data \in Seeds

----------------------------------------------------------------------------
\* The candidates of the last construction that cannot be scored over its
\* N = time_horizon steps.

\* a sample of the sampler has fewer than N points
ShortSample ==
  \E k \in 1..Len(ret.opt.value.samples) :
    Len(ret.opt.value.samples[k]) < ToSize(ret.opt.value.time_horizon)

\* the object stream has no record for one of the N steps
ShortObjects ==
  \E k \in 1..ToSize(ret.opt.value.time_horizon) :
    ~Buffer_get(trimmed_data.buf_objects,
                StepTime(trimmed_data, ret.opt.value.time_resolution, k - 1)).has_value

\* C19: if building or scoring one candidate fails part-way through the
\* construction, because the object history or a candidate's points are
\* fewer than N, the constructor throws and no candidate set exists: none of
\* the candidates scored before is held.
C19_NoPartialSet ==
  (ret.op = "SamplingTrajectoryData" /\ ~ub /\ SeedPresent /\ (ShortSample \/ ShortObjects)) =>
    /\ sampling.st = "throw"
    /\ sampling.data = <<>>

\* the plan's candidate could be scored, a sample was too short, and the
\* constructor threw
C19_Witness ==
  /\ ret.op = "SamplingTrajectoryData"
  /\ SeedPresent
  /\ ShortSample
  /\ ~ShortObjects
  /\ sampling.st = "throw"
  /\ sampling.data = <<>>

----------------------------------------------------------------------------
\* The accessors of a constructed SamplingTrajectoryData.

\* C20: after a successful build, best() returns the candidate of rank 0,
\* whose total is greater than or equal to the total of every candidate of the
\* set (for a build free of undefined behaviour, whose totals are numbers),
\* and the by-tag accessor, autoware(), returns the first candidate in rank
\* order with the tag "autoware" and always finds one.
C20_Accessors ==
  /\ ret.op = "best" =>
       /\ ret.opt = Some(ret.before.data[1])
       /\ ret.before.st = "ok" =>
            \A k \in 1..Len(ret.before.data) :
              /\ ~IsNaN(total(ret.opt.value.scores))
              /\ ~DLt(total(ret.opt.value.scores), total(ret.before.data[k].scores))
  /\ ret.op = "autoware" =>
       /\ ~ub
       /\ ret.opt.has_value
       /\ \E k \in 1..Len(ret.before.data) :
            /\ ret.opt.value = ret.before.data[k]
            /\ ret.opt.value.tag = "autoware"
            /\ \A j \in 1..(k - 1) : ret.before.data[j].tag # "autoware"

\* best() returned a sampled candidate that ranks before the plan's own and
\* whose total is greater than the total of the last rank
C20_Witness ==
  /\ ret.op = "best"
  /\ ret.before.st = "ok"
  /\ Len(ret.before.data) = MaxSamples + 1
  /\ ret.opt.value = ret.before.data[1]
  /\ ret.opt.value.tag = "frenet"
  /\ DLt(total(ret.before.data[MaxSamples + 1].scores), total(ret.opt.value.scores))

----------------------------------------------------------------------------
\* The resampled plan among the candidates of the last construction.

\* the candidates of the last construction made from the plan itself
ResampledSelf ==
  {sampling.generated[k] : k \in {j \in 1..Len(sampling.generated) :
                                     sampling.generated[j].tag = "autoware"}}

\* C21: the resampled-self candidate consists of exactly time_horizon /
\* time_resolution points, and the number N of steps over which its metrics
\* are extracted and scored equals that number of points: every resampled
\* point is scored.
C21_EveryPointScored ==
  (ret.op = "SamplingTrajectoryData" /\ sampling.st \in {"ok", "ub"}) =>
    \A c \in ResampledSelf :
      /\ Num(Len(c.points)) = DDiv(ret.opt.value.time_horizon, ret.opt.value.time_resolution)
      /\ c.resample_num = Len(c.points)
      /\ \A m \in METRICS : Len(c.values[m]) = Len(c.points)

\* a plan resampled to time_horizon / time_resolution points of which only the
\* first time_horizon are scored
C21_Witness ==
  /\ ret.op = "SamplingTrajectoryData"
  /\ sampling.st = "ok"
  /\ \E c \in ResampledSelf :
       /\ Num(Len(c.points)) = DDiv(ret.opt.value.time_horizon, ret.opt.value.time_resolution)
       /\ c.resample_num = ToSize(ret.opt.value.time_horizon)
       /\ c.resample_num < Len(c.points)
       /\ \A m \in METRICS : Len(c.values[m]) = c.resample_num

----------------------------------------------------------------------------
\* The longitudinal jerk as a forward difference.

\* (acc[i + 1] - acc[i]) / dt[i] for i < N - 1
ForwardDifference(jerk, acc, dt, n) ==
  \A i \in 1..(n - 1) : jerk[i] = DDiv(DSub(acc[i + 1], acc[i]), dt[i])

\* the acceleration records a manual source collects at the resolution
AccelSamples(time_resolution, n) ==
  [i \in 1..n |->
     Buffer_get(trimmed_data.buf_accel, StepTime(trimmed_data, time_resolution, i - 1)).value]

\* C22: for every data-source variant and every step i < N - 1 the
\* longitudinal jerk is the acceleration at step i + 1 minus the acceleration
\* at step i, divided by the time elapsed between the two samples. For the
\* manual source that is the difference of the records' stamps; for a sampled
\* candidate it is the 0.5 s at which the sampler resamples; for the
\* resampled plan it is the time_resolution of the construction, whatever
\* its value.
C22_ForwardDifference ==
  /\ (ret.op = "ManualDrivingData" /\ Extracted(common_data)) =>
       \E time_resolution \in JerkResolutions :
         LET acc == AccelSamples(time_resolution, common_data.resample_num)
         IN  ForwardDifference(common_data.values.LONGITUDINAL_JERK,
                               [i \in 1..common_data.resample_num |-> acc[i].accel.accel.linear.x],
                               [i \in 1..(common_data.resample_num - 1) |->
                                  Frac(acc[i + 1].header.stamp - acc[i].header.stamp, NS_1E9)],
                               common_data.resample_num)
  /\ (ret.op = "TrajectoryData" /\ Extracted(common_data)) =>
       ForwardDifference(common_data.values.LONGITUDINAL_JERK,
                         [i \in 1..common_data.resample_num |->
                            common_data.points[i].acceleration_mps2],
                         [i \in 1..common_data.resample_num |-> Frac(1, 2)],
                         common_data.resample_num)
  /\ (ret.op = "SamplingTrajectoryData" /\ Extracted(sampling)) =>
       \A k \in 1..Len(sampling.data) :
         LET c == sampling.data[k]
         IN  ForwardDifference(c.values.LONGITUDINAL_JERK,
                               [i \in 1..c.resample_num |-> c.points[i].acceleration_mps2],
                               [i \in 1..c.resample_num |->
                                  IF c.tag = "autoware" THEN ret.opt.value.time_resolution
                                  ELSE Frac(1, 2)],
                               c.resample_num)

\* the plan resampled at one point a second: its acceleration rises by 2 from
\* the first point to the second, and the jerk of the first step is 4
C22_Witness ==
  /\ ret.op = "SamplingTrajectoryData"
  /\ sampling.st = "ok"
  /\ ret.opt.value.time_resolution = Num(1)
  /\ \E k \in 1..Len(sampling.data) :
       /\ sampling.data[k].tag = "autoware"
       /\ sampling.data[k].points[1].acceleration_mps2 = Num(0)
       /\ sampling.data[k].points[2].acceleration_mps2 = Num(2)
       /\ sampling.data[k].values.LONGITUDINAL_JERK[1] = Num(4)

----------------------------------------------------------------------------
\* TimeKeeper::report while a track is open.

\* C23: report() throws std::runtime_error whenever it is called while a
\* started track has not been ended (the node being tracked is not null);
\* then nothing is written to any stream or publisher and the tree, with its
\* root and the node being tracked, is left as it was.
C23_ReportWhileTracking ==
  (ret.op = "report" /\ ret.before.current_time_node_ # nullptr) =>
    /\ ~ub
    /\ ret.opt.value.thrown
    /\ time_keeper.out = ret.before.out
    /\ time_keeper.nodes = ret.before.nodes
    /\ time_keeper.root_node_ = ret.before.root_node_
    /\ time_keeper.current_time_node_ = ret.before.current_time_node_

\* report() to a stream and a publisher, after an earlier report was written,
\* while a child of the root is tracked
C23_Witness ==
  /\ ret.op = "report"
  /\ ret.opt.has_value
  /\ ret.opt.value.args = <<"ostream", "publisher">>
  /\ ret.opt.value.thrown
  /\ ret.before.out # <<>>
  /\ ret.before.root_node_ = 1
  /\ ret.before.current_time_node_ = 2
  /\ time_keeper = ret.before

----------------------------------------------------------------------------
\* The paths retrievePathsBackward returns.

\* p is a node-simple path of the graph from src on that cannot be extended
MaximalSimplePath(adjacency, src, p) ==
  /\ p # <<>>
  /\ p[1] = src
  /\ \A i, j \in 1..Len(p) : i # j => p[i] # p[j]
  /\ \A i \in 1..(Len(p) - 1) : adjacency[p[i]][p[i + 1]]
  /\ \A j \in DOMAIN adjacency :
       adjacency[p[Len(p)]][j] => \E k \in 1..Len(p) : p[k] = j

\* p comes before q in a depth-first search that takes successors in
\* ascending order: at the first place they differ, p has the lower node
SearchedBefore(p, q) ==
  \E i \in 1..Len(p) :
    /\ i <= Len(q)
    /\ \A k \in 1..(i - 1) : p[k] = q[k]
    /\ p[i] < q[i]

----------------------------------------------------------------------------
\* The commands the selector forwards.

\* the publisher the last command arrived at, and the command
Subscriber == ret.before.publishers_[ret.opt.value.k]

\* the last command was published on actuation_cmd as it was received
Forwarded == selector.actuation_cmd = Append(ret.before.actuation_cmd, ret.opt.value.cmd)

\* the last command was dropped: nothing was published
Dropped == selector.actuation_cmd = ret.before.actuation_cmd

\* C25: a command received on a per-gear input topic is published on the
\* shared actuation_cmd output if and only if gear_report_ equals that
\* subscriber's gear number when the command is received; otherwise it is
\* dropped and nothing is published, and what is published is an unmodified
\* copy of the command received.
C25_ForwardOnGear ==
  ret.op = "callbackCmd" =>
    /\ ret.before.gear_report_ = Subscriber.gear_num_ => Forwarded
    /\ ret.before.gear_report_ # Subscriber.gear_num_ => Dropped
    /\ selector.gear_report_ = ret.before.gear_report_
    /\ selector.publishers_ = ret.before.publishers_

\* after a command was forwarded, a command of the converter of another gear
\* is dropped
C25_Witness ==
  /\ ret.op = "callbackCmd"
  /\ ret.before.actuation_cmd # <<>>
  /\ Subscriber.gear_num_ = 20
  /\ ret.opt.value.cmd # ret.before.actuation_cmd[1]
  /\ Dropped

\* C26: the current gear starts as DRIVE, and once the vehicle has reported a
\* gear, every later command is forwarded by the gear reported last: a command
\* of the converter of that gear is published, a command of another gear's
\* converter is not.
C26_FollowsGearReport ==
  /\ (ret.op = "none") => selector.gear_report_ = DRIVE
  /\ (ret.op = "callbackCmd" /\ ret.before.gear.has_value) =>
       /\ Subscriber.gear_num_ = ret.before.gear.value => Forwarded
       /\ Subscriber.gear_num_ # ret.before.gear.value => Dropped

\* the vehicle reported REVERSE; a command of the converter of DRIVE is still
\* published
C26_Witness ==
  /\ ret.op = "callbackCmd"
  /\ ret.before.gear = Some(20)
  /\ ret.before.gear_report_ = DRIVE
  /\ Subscriber.gear_num_ = DRIVE
  /\ Forwarded

----------------------------------------------------------------------------
\* Readiness and the queries of a horizon.

\* the step lies within the buffered 20 s: i * time_resolution <= 20 s
WithinBufferTime(time_resolution, i) ==
  ~DLt(Num(BUFFER_TIME), DMul(DMul(Num(NS_1E9), time_resolution), Num(i)))

----------------------------------------------------------------------------
\* The acceleration records of consecutive steps of a manual source.

\* C28: the acceleration records a ManualDrivingData collects for the steps i
\* and i + 1 are distinct records with strictly increasing stamps, so that the
\* elapsed time the jerk of a step i < N - 1 is divided by is strictly positive,
\* whatever the buffers hold, as long as N samples are collected.
C28_DistinctAccelSamples ==
  (/\ ret.op = "ManualDrivingData"
   /\ common_data # NoData
   /\ \A k \in 1..common_data.resample_num : Synchronized(k)) =>
    \A time_resolution \in time_resolutions :
      LET accel_history == AccelSamples(time_resolution, common_data.resample_num)
      IN  \A i \in 1..(common_data.resample_num - 1) :
            /\ accel_history[i + 1] # accel_history[i]
            /\ accel_history[i + 1].header.stamp > accel_history[i].header.stamp

\* MaxN samples collected from an acceleration log with no record between the
\* last two steps: both steps got the same record, and the jerk between them is
\* 0 / 0
C28_Witness ==
  /\ ret.op = "ManualDrivingData"
  /\ common_data # NoData
  /\ common_data.st = "ok"
  /\ common_data.resample_num = MaxN
  /\ \A k \in 1..MaxN : Synchronized(k)
  /\ \E time_resolution \in time_resolutions :
       LET accel_history == AccelSamples(time_resolution, MaxN)
       IN  /\ accel_history[MaxN] = accel_history[MaxN - 1]
           /\ accel_history[2] # accel_history[1]
  /\ IsNaN(common_data.values.LONGITUDINAL_JERK[MaxN - 1])

----------------------------------------------------------------------------
\* The specializations against the template.

\* the records of m as the template sees them: each under its timestamp key
AsGeneric(k, m) == [i \in 1..Len(m) |-> Header(Timestamp(k, m[i]))]

\* the call recorded in ret did to the records before it, all of them stamped,
\* what the template does to their keys
LikeGeneric ==
  LET b == ret.before
      g == AsGeneric(kind, b)
      itr == Buffer_find_if(g, ret.now, 1)
      kept == Buffer_remove_old_data(g, ret.now)
  IN  /\ ret.op = "append" => msgs = Append(b, ret.opt.value)
      /\ ret.op = "remove_old_data" =>
           msgs = KeepAt(b, {i \in 1..Len(b) : \E j \in 1..Len(kept) : kept[j] = g[i]})
      /\ ret.op = "get" =>
           /\ msgs = b
           /\ ret.opt = IF itr = Len(b) + 1 THEN nullopt ELSE Some(b[itr])
           /\ ret.opt.has_value <=> Buffer_get(g, ret.now).has_value
      /\ ret.op = "is_ready" => msgs = b /\ (ret.ready <=> Buffer_is_ready(g))

\* C29: Buffer<SteeringReport> and Buffer<TFMessage> behave as the template
\* does with msg.stamp, respectively msg.transforms.front().header.stamp, in
\* the place of msg.header.stamp: over every sequence of append,
\* remove_old_data, get(now) and is_ready they hold the same records and
\* return the same results, also when an appended TFMessage has no transforms
\* (every call then still has its one result).
C29_SameAsGeneric ==
  (kind \in {"steer", "tf"} /\ ret.op \in {"append", "remove_old_data", "get", "is_ready"}) =>
    /\ ~ub
    /\ AllStamped(kind, ret.before) => LikeGeneric
    /\ ~AllStamped(kind, ret.before) =>
         /\ ret.op = "remove_old_data" =>
              Cardinality(remove_old_data(kind, ret.before, ret.now)) = 1
         /\ ret.op = "get" => Cardinality(get(kind, ret.before, ret.now)) = 1

\* remove_old_data on a Buffer<TFMessage> that holds a batch without transforms
\* read transforms.front() of it and the process ended
C29_Witness ==
  /\ kind = "tf"
  /\ ret.op = "remove_old_data"
  /\ TF_unstamped(ret.before) # {}
  /\ \E i \in 1..Len(ret.before) : i \notin TF_unstamped(ret.before)
  /\ ub

----------------------------------------------------------------------------
\* The ranked candidates against the generated ones.

\* d holds the elements of g, each as often as g does
IsPermutation(d, g) ==
  /\ Len(d) = Len(g)
  /\ \E f \in TieOrders(Len(g)) : \A k \in 1..Len(g) : d[k] = g[f[k]]

\* C30: after a construction that returned, data is a permutation of the
\* candidates as they were emplaced: the one candidate tagged "autoware", made
\* from the plan, and one candidate tagged "frenet" for each point list the
\* sampler returned, each with the tag, the points, the metric series and the
\* scores it was emplaced with.
C30_RankedPermutation ==
  (ret.op = "SamplingTrajectoryData" /\ sampling.st = "ok") =>
    LET samples == ret.opt.value.samples
        g == sampling.generated
        d == sampling.data
    IN  /\ Len(d) = 1 + Len(samples)
        /\ IsPermutation(d, g)
        /\ Cardinality({k \in 1..Len(d) : d[k].tag = "autoware"}) = 1
        /\ g[1].tag = "autoware"
        /\ \A k \in 1..Len(samples) :
             /\ g[k + 1].tag = "frenet"
             /\ g[k + 1].points = samples[k]
        /\ \A k \in 1..Len(d) :
             \E j \in 1..Len(g) :
               /\ d[k].tag = g[j].tag /\ d[k].points = g[j].points
               /\ d[k].values = g[j].values /\ d[k].scores = g[j].scores

\* a ranking of MaxSamples + 1 candidates, no two alike, in which the plan's
\* candidate does not stand first
C30_Witness ==
  /\ ret.op = "SamplingTrajectoryData"
  /\ sampling.st = "ok"
  /\ Len(sampling.data) = MaxSamples + 1
  /\ \A i, j \in 1..Len(sampling.data) : i # j => sampling.data[i] # sampling.data[j]
  /\ sampling.data[1].tag = "frenet"
  /\ sampling.data # sampling.generated
  /\ IsPermutation(sampling.data, sampling.generated)

====
